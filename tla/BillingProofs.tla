---------------------------- MODULE BillingProofs ----------------------------
(***************************************************************************)
(* Theorems about Billing, for every set of users, orders, grants,         *)
(* coupons and concurrent requests.                                        *)
(***************************************************************************)
EXTENDS BillingInvariant, FiniteSetTheorems, TLAPS

----------------------------------------------------------------------------
(* Operators *)

LEMMA StatusFacts ==
    /\ Statuses = {"none", "pending", "failed", "active", "cancelled", "refunded",
                   "disputed", "revoked", "expired"}
    /\ PaidPlans = {"monthly", "yearly", "lifetime"}
    /\ Null \notin Users /\ Null \notin SubIds /\ Null \notin Nat
    /\ Null \notin PaidPlans \cup {"free"}
    /\ Orders \subseteq SubIds /\ Grants \subseteq SubIds /\ Coupons \subseteq SubIds
    /\ OnSale \subseteq PaidPlans
    /\ Users \cap SubIds = {}
BY BillingAssumption DEF Statuses, Claimable, Held, Reversed, PaidPlans, TimedPlans, SubIds

LEMMA LivePlanType ==
    ASSUME NEW usr \in UserRow, NEW d \in Nat
    PROVE  LivePlan(usr, d) \in PaidPlans \cup {"free"}
BY DEF LivePlan, UserRow, TimedPlans, PaidPlans

LEMMA EndTrialType ==
    ASSUME NEW e \in Day, NEW d \in Nat
    PROVE  EndTrial(e, d) \in Day
BY DEF EndTrial, Day

LEMMA StackedExpiryType ==
    ASSUME NEW usr \in UserRow, NEW plan \in PaidPlans, NEW d \in Nat
    PROVE  StackedExpiry(usr, plan, d) \in Day
<1>1. LivePlan(usr, d) \in TimedPlans => usr.planExp \in Nat
  BY BillingAssumption DEF LivePlan, UserRow, TimedPlans, Day
<1>2. plan # "lifetime" => PLAN_DURATIONS[plan] \in Nat
  BY BillingAssumption DEF PLAN_DURATIONS, PaidPlans, TimedPlans
<1>3. usr.trialExp # Null => usr.trialExp \in Nat
  BY DEF UserRow, Day
<1>4. QED
  BY <1>1, <1>2, <1>3 DEF StackedExpiry, Day

LEMMA NoTxnType == NoTxn \in Txn
BY BillingAssumption DEF NoTxn, Txn, Day, Statuses

LEMMA NewOrderType ==
    ASSUME NEW u \in Users, NEW p \in PaidPlans, NEW a \in Prices \cup {Null}
    PROVE  /\ NewOrder(u, p, a) \in SubRow
           /\ NewOrder(u, p, a).status = "pending"
           /\ NewOrder(u, p, a).user = u /\ NewOrder(u, p, a).plan = p
<1>1. NoSub \in SubRow BY StatusFacts DEF NoSub, SubRow, Day
<1>2. "pending" \in Statuses BY StatusFacts
<1>3. NewOrder(u, p, a) \in SubRow BY <1>1, <1>2 DEF NewOrder, SubRow
<1>4. QED BY <1>3 DEF NewOrder, NoSub

LEMMA UnpaidType ==
    ASSUME NEW a \in Prices \cup {Null}
    PROVE  Unpaid(a) \in GatewayOrder /\ Unpaid(a).pay = "open"
BY DEF Unpaid, GatewayOrder

LEMMA NoTxnInv == TxnInv(NoTxn)
BY DEF NoTxn, TxnInv, InsertInv, ClaimInv, ClaimedInv, ActivateInv, RevokeInv, GrantInv,
   RedeemInv, HoldsInv

----------------------------------------------------------------------------
(* What a step of others must leave alone for a request to keep what it    *)
(* knows: the rows it holds, the row id it took, who a row belongs to.     *)

Undisturbed(t) ==
    /\ now' >= now
    /\ \A o \in Orders : gateway[o].pay = "captured" => gateway'[o].pay = "captured"
    /\ \A s \in SubIds : subs[s].status # "none" =>
          subs'[s].user = subs[s].user /\ subs'[s].plan = subs[s].plan
    /\ t.sub \in SubIds /\ (t.sub \in t.locks \/ t.pc \in {"insert", "grant"}) =>
          subs'[t.sub].status = subs[t.sub].status
    /\ t.sub \in Coupons /\ t.sub \in t.locks => coupons'[t.sub] = coupons[t.sub]
    /\ t.user \in Users /\ t.user \in t.locks => users'[t.user] = users[t.user]

LEMMA KeepsTxnInv ==
    ASSUME TypeOK, now' \in Nat, RowsSound, NEW t \in Txn, TxnInv(t), Undisturbed(t)
    PROVE  TxnInv(t)'
<1> USE StatusFacts
<1>1. InsertInv(t)' BY DEF TxnInv, InsertInv, Undisturbed
<1>2. ClaimInv(t)' BY DEF TxnInv, ClaimInv, Undisturbed, RowsSound
<1>3. ClaimedInv(t)' BY DEF TxnInv, ClaimInv, ClaimedInv, Undisturbed
<1>4. ActivateInv(t)'
  <2>1. t.pc = "activate" => users'[t.user] = users[t.user]
    BY DEF TxnInv, ClaimInv, ActivateInv, Undisturbed
  <2>2. QED BY <2>1 DEF TxnInv, ActivateInv, Undisturbed, TypeOK, Txn
<1>5. RevokeInv(t)' BY DEF TxnInv, RevokeInv, Undisturbed
<1>6. GrantInv(t)' BY DEF TxnInv, GrantInv, Undisturbed
<1>7. RedeemInv(t)' BY DEF TxnInv, RedeemInv, Undisturbed
<1>8. HoldsInv(t)' BY DEF TxnInv, HoldsInv
<1>9. QED BY <1>1, <1>2, <1>3, <1>4, <1>5, <1>6, <1>7, <1>8 DEF TxnInv

(* A step that only moves the request of worker w to t. *)
LEMMA MoveInv ==
    ASSUME IInv, NEW w \in Workers, NEW t \in Txn,
           txn' = [txn EXCEPT ![w] = t],
           UNCHANGED <<now, price, users, subs, coupons, history>>,
           gateway' \in [Orders -> GatewayOrder], crashes' \in Nat,
           \A o \in Orders : /\ gateway[o].pay = "captured" => gateway'[o].pay = "captured"
                             /\ gateway[o].pay = "none" => gateway'[o].pay = "none",
           TxnInv(t)',
           \A v \in Workers \ {w} : txn[v].locks \cap t.locks = {},
           t.sub # Null => \/ t.sub \in Coupons \/ subs[t.sub].status # "none"
                           \/ \A v \in Workers \ {w} : txn[v].sub # t.sub
    PROVE  IInv'
<1> USE StatusFacts
<1>1. TypeOK' BY DEF IInv, TypeOK, history
<1>2. LocksExclusive' BY DEF IInv, TypeOK, LocksExclusive
<1>3. (RowsSound /\ UnstoredUnpaid /\ UnusedCoupons /\ ExactlyOnce)'
  BY DEF IInv, history, RowsSound, UnstoredUnpaid, UnusedCoupons, ExactlyOnce
<1>4. NewIdsExclusive'
  <2> DEFINE New(r) == r.pc \in {"insert", "grant"} /\ r.sub # Null =>
                          r.sub \notin Coupons /\ subs[r.sub].status = "none"
  <2>1. \A v \in Workers : New(txn[v])
    BY BillingAssumption DEF IInv, TxnInv, InsertInv, GrantInv
  <2>2. New(t) BY BillingAssumption DEF TxnInv, InsertInv, GrantInv
  <2>3. QED BY <2>1, <2>2 DEF IInv, TypeOK, NewIdsExclusive
<1>5. ASSUME NEW v \in Workers PROVE TxnInv(txn[v])'
  <2>1. CASE v = w
    <3>1. txn'[v] = t BY <2>1 DEF IInv, TypeOK
    <3>2. QED BY <3>1
  <2>2. CASE v # w
    <3>1. txn'[v] = txn[v] /\ txn[v] \in Txn BY <2>2 DEF IInv, TypeOK
    <3>2. Undisturbed(txn[v]) BY DEF Undisturbed, IInv, TypeOK
    <3>3. \A r \in Txn : TxnInv(r) /\ Undisturbed(r) => TxnInv(r)'
      BY KeepsTxnInv DEF IInv, TypeOK
    <3>4. QED BY <3>1, <3>2, <3>3 DEF IInv
  <2>3. QED BY <2>1, <2>2
<1>6. QED BY <1>1, <1>2, <1>3, <1>4, <1>5 DEF IInv

(* A step that ends some requests and leaves the others and what they hold *)
(* alone.                                                                  *)
LEMMA EndOrKeepInv ==
    ASSUME IInv, TypeOK', RowsSound', UnstoredUnpaid', UnusedCoupons', ExactlyOnce',
           \A v \in Workers : \/ txn'[v] = NoTxn
                              \/ txn'[v] = txn[v] /\ Undisturbed(txn[v])
    PROVE  IInv'
<1>1. NoTxn.locks = {} /\ NoTxn.sub = Null /\ NoTxn.pc = "idle" BY DEF NoTxn
<1>2. LocksExclusive' BY <1>1 DEF IInv, LocksExclusive
<1>3. NewIdsExclusive' BY <1>1 DEF IInv, NewIdsExclusive
<1>4. ASSUME NEW v \in Workers PROVE TxnInv(txn[v])'
  <2>1. CASE txn'[v] = NoTxn
    <3>1. TxnInv(NoTxn)' BY <1>1 DEF TxnInv, InsertInv, ClaimInv, ClaimedInv, ActivateInv,
          RevokeInv, GrantInv, RedeemInv, HoldsInv
    <3>2. NoTxn' = NoTxn BY DEF NoTxn
    <3>3. QED BY <2>1, <3>1, <3>2
  <2>2. CASE txn'[v] = txn[v] /\ Undisturbed(txn[v])
    <3>1. PICK t \in Txn : t = txn[v] BY DEF IInv, TypeOK
    <3>2. TxnInv(t)' BY <2>2, <3>1, KeepsTxnInv DEF IInv, TypeOK
    <3>3. QED BY <2>2, <3>1, <3>2
  <2>3. QED BY <2>1, <2>2
<1>5. QED BY <1>2, <1>3, <1>4 DEF IInv

----------------------------------------------------------------------------
(* The first steps and the middle steps of requests *)

LEMMA IdleInv ==
    ASSUME IInv, NEW w \in Workers, Done(w),
           UNCHANGED <<now, price, users, subs, coupons, gateway, history>>, crashes' \in Nat
    PROVE  IInv'
<1>1. TxnInv(NoTxn)' BY NoTxnInv DEF NoTxn, TxnInv, InsertInv, ClaimInv, ClaimedInv,
      ActivateInv, RevokeInv, GrantInv, RedeemInv, HoldsInv
<1>2. NoTxn.sub = Null /\ NoTxn.locks = {} BY DEF NoTxn
<1>3. gateway' \in [Orders -> GatewayOrder] BY DEF IInv, TypeOK
<1>4. QED BY <1>1, <1>2, <1>3, NoTxnType, MoveInv DEF Done

LEMMA BeginOrderInv ==
    ASSUME IInv, NEW w \in Workers, NEW o \in Orders, NEW u \in Users, NEW p \in OnSale,
           BeginOrder(w, o, u, p)
    PROVE  IInv'
<1> USE StatusFacts
<1>1. PICK t \in Txn : /\ txn' = [txn EXCEPT ![w] = t]
                       /\ t.pc = "insert" /\ t.sub = o /\ t.user = u /\ t.plan = p
                       /\ t.locks = {}
  <2> DEFINE r == [NoTxn EXCEPT !.pc = "insert", !.sub = o, !.user = u, !.plan = p,
                                !.amount = price[p]]
  <2>1. r \in Txn BY NoTxnType DEF Txn, IInv, TypeOK
  <2>2. r.pc = "insert" /\ r.sub = o /\ r.user = u /\ r.plan = p /\ r.locks = {} BY DEF NoTxn
  <2>3. txn' = [txn EXCEPT ![w] = r] BY DEF BeginOrder
  <2> HIDE DEF r
  <2>4. QED BY <2>1, <2>2, <2>3
<1>2. /\ Unused(o) /\ o \in SubIds
      /\ UNCHANGED <<now, price, users, subs, coupons, gateway, crashes, history>>
  BY DEF BeginOrder
<1>3. TxnInv(t)'
  BY <1>1, <1>2 DEF TxnInv, InsertInv, ClaimInv, ClaimedInv, ActivateInv, RevokeInv,
     GrantInv, RedeemInv, HoldsInv, Unused
<1>4. gateway' \in [Orders -> GatewayOrder] /\ crashes' \in Nat BY <1>2 DEF IInv, TypeOK
<1>5. /\ \A v \in Workers \ {w} : txn[v].locks \cap t.locks = {}
      /\ \A v \in Workers \ {w} : txn[v].sub # t.sub
  BY <1>1, <1>2 DEF Unused
<1>6. QED BY <1>1, <1>2, <1>3, <1>4, <1>5, MoveInv

LEMMA StartActivationInv ==
    ASSUME IInv, NEW w \in Workers, NEW o \in Orders, StartActivation(w, o), Activatable(o),
           UNCHANGED <<now, price, users, subs, coupons, crashes, history>>,
           gateway' \in [Orders -> GatewayOrder], gateway'[o].pay = "captured",
           \A x \in Orders : /\ gateway[x].pay = "captured" => gateway'[x].pay = "captured"
                             /\ gateway[x].pay = "none" => gateway'[x].pay = "none"
    PROVE  IInv'
<1> USE StatusFacts
<1>1. /\ o \in SubIds /\ subs[o].status \in Claimable /\ subs[o] \in SubRow
      /\ subs[o].user \in Users /\ subs[o].plan \in OnSale
  BY DEF Activatable, IInv, RowsSound, TypeOK, SubRow, Claimable
<1>2. PICK t \in Txn : /\ txn' = [txn EXCEPT ![w] = t]
                       /\ t.pc = "claim" /\ t.sub = o /\ t.locks = {}
                       /\ t.user = subs[o].user /\ t.plan = subs[o].plan
  <2> DEFINE r == [NoTxn EXCEPT !.pc = "claim", !.sub = o, !.user = subs[o].user,
                                !.plan = subs[o].plan]
  <2>1. r \in Txn BY <1>1, NoTxnType DEF Txn
  <2>2. /\ r.pc = "claim" /\ r.sub = o /\ r.locks = {}
        /\ r.user = subs[o].user /\ r.plan = subs[o].plan
    BY DEF NoTxn
  <2>3. txn' = [txn EXCEPT ![w] = r] BY DEF StartActivation
  <2> HIDE DEF r
  <2>4. QED BY <2>1, <2>2, <2>3
<1>3. TxnInv(t)'
  BY <1>1, <1>2 DEF TxnInv, InsertInv, ClaimInv, ClaimedInv, ActivateInv, RevokeInv,
     GrantInv, RedeemInv, HoldsInv
<1>4. subs[t.sub].status # "none" BY <1>1, <1>2 DEF Claimable
<1>5. crashes' \in Nat BY DEF IInv, TypeOK
<1>6. QED BY <1>2, <1>3, <1>4, <1>5, MoveInv

LEMMA CapturedWebhookInv ==
    ASSUME IInv, NEW w \in Workers, NEW o \in Orders, CapturedWebhook(w, o)
    PROVE  IInv'
<1>1. gateway' \in [Orders -> GatewayOrder] BY DEF CapturedWebhook, IInv, TypeOK
<1>2. QED BY <1>1, StartActivationInv DEF CapturedWebhook, Captured

LEMMA ClaimStepInv ==
    ASSUME IInv, NEW w \in Workers, Claim(w)
    PROVE  IInv'
<1> USE StatusFacts
<1> DEFINE old == txn[w]
<1>1. old \in Txn /\ TxnInv(old) /\ old.pc = "claim" BY DEF Claim, IInv, TypeOK
<1>2. gateway' \in [Orders -> GatewayOrder] /\ crashes' \in Nat BY DEF Claim, IInv, TypeOK
<1>3. ClaimInv(old) BY <1>1 DEF TxnInv
<1>4. CASE StillClaimable(old)
  <2>1. PICK t \in Txn : /\ txn' = [txn EXCEPT ![w] = t]
                         /\ t.pc = "lockUser" /\ t.sub = old.sub /\ t.user = old.user
                         /\ t.plan = old.plan /\ t.locks = {old.sub}
    <3> DEFINE r == [old EXCEPT !.pc = "lockUser", !.locks = {old.sub}]
    <3>1. r \in Txn BY <1>1, <1>3 DEF Txn, ClaimInv
    <3>2. /\ r.pc = "lockUser" /\ r.sub = old.sub /\ r.user = old.user
          /\ r.plan = old.plan /\ r.locks = {old.sub}
      BY <1>1 DEF Txn
    <3>3. txn' = [txn EXCEPT ![w] = r] BY <1>1, <1>4 DEF Claim, IInv, TypeOK
    <3> HIDE DEF r
    <3>4. QED BY <3>1, <3>2, <3>3
  <2>2. TxnInv(t)'
    BY <1>1, <1>3, <1>4, <2>1 DEF Claim, StillClaimable, TxnInv, InsertInv, ClaimInv, ClaimedInv,
       ActivateInv, RevokeInv, GrantInv, RedeemInv, HoldsInv
  <2>3. subs[t.sub].status # "none" BY <1>4, <2>1 DEF StillClaimable, Claimable
  <2>4. \A v \in Workers \ {w} : txn[v].locks \cap t.locks = {}
    BY <2>1 DEF Claim, Free
  <2>5. QED BY <1>2, <2>1, <2>2, <2>3, <2>4, MoveInv DEF Claim
<1>5. CASE ~StillClaimable(old)
  BY <1>2, <1>5, IdleInv DEF Claim
<1>6. QED BY <1>4, <1>5

LEMMA SettleInv ==
    ASSUME IInv, NEW w \in Workers, NEW o \in Orders, Settle(w, o)
    PROVE  IInv'
<1> USE StatusFacts
<1>1. /\ gateway' \in [Orders -> GatewayOrder] /\ gateway'[o].pay = "captured"
      /\ \A x \in Orders : /\ gateway[x].pay = "captured" => gateway'[x].pay = "captured"
                           /\ gateway[x].pay = "none" => gateway'[x].pay = "none"
  BY SMTT(30) DEF Settle, IInv, TypeOK, GatewayOrder
<1>2. UNCHANGED <<now, price, users, subs, coupons, crashes, history>> BY DEF Settle
<1>3. CASE Activatable(o) /\ StartActivation(w, o)
  BY <1>1, <1>2, <1>3, StartActivationInv
<1>4. CASE ~Activatable(o) /\ UNCHANGED txn
  <2>1. TypeOK' BY <1>1, <1>2, <1>4 DEF IInv, TypeOK, history
  <2>2. (RowsSound /\ UnstoredUnpaid /\ UnusedCoupons /\ ExactlyOnce)'
    BY <1>1, <1>2 DEF IInv, RowsSound, UnstoredUnpaid, UnusedCoupons, ExactlyOnce, history
  <2>3. \A v \in Workers : txn'[v] = txn[v] /\ Undisturbed(txn[v])
    BY <1>1, <1>2, <1>4 DEF Undisturbed, IInv, TypeOK
  <2>4. QED BY <2>1, <2>2, <2>3, EndOrKeepInv
<1>5. QED BY <1>3, <1>4 DEF Settle

LEMMA LockUserInv ==
    ASSUME IInv, NEW w \in Workers, LockUser(w)
    PROVE  IInv'
<1> USE StatusFacts
<1> DEFINE old == txn[w]
           row == users[old.user]
<1>1. /\ old \in Txn /\ TxnInv(old) /\ old.pc = "lockUser" /\ Free(w, old.user)
      /\ UNCHANGED <<now, price, users, subs, coupons, gateway, crashes, history>>
  BY DEF LockUser, ReadLocked, IInv, TypeOK
<1>2. ClaimInv(old) /\ ClaimedInv(old) BY <1>1 DEF TxnInv
<1>3. /\ row \in UserRow /\ now \in Nat /\ gateway' \in [Orders -> GatewayOrder]
      /\ crashes' \in Nat
  BY <1>1, <1>2 DEF ClaimInv, IInv, TypeOK
<1>4. /\ StackedExpiry(row, old.plan, now) \in Day
      /\ LivePlan(row, now) \in PaidPlans \cup {"free"}
  BY <1>1, <1>2, <1>3, StackedExpiryType, LivePlanType DEF ClaimInv
<1>5. PICK t \in Txn : /\ txn' = [txn EXCEPT ![w] = t]
                       /\ t.pc = "activate" /\ t.sub = old.sub /\ t.user = old.user
                       /\ t.plan = old.plan /\ t.at = now
                       /\ t.locks = old.locks \cup {old.user}
                       /\ t.exp = StackedExpiry(row, old.plan, now)
                       /\ t.live = LivePlan(row, now)
  <2> DEFINE r == [old EXCEPT !.pc = "activate", !.at = now,
                              !.exp = StackedExpiry(row, old.plan, now),
                              !.live = LivePlan(row, now), !.locks = @ \cup {old.user}]
  <2>1. r \in Txn BY ZenonT(60), <1>1, <1>2, <1>3, <1>4 DEF Txn, ClaimInv
  <2>2. /\ r.pc = "activate" /\ r.sub = old.sub /\ r.user = old.user
        /\ r.plan = old.plan /\ r.at = now /\ r.locks = old.locks \cup {old.user}
        /\ r.exp = StackedExpiry(row, old.plan, now) /\ r.live = LivePlan(row, now)
    BY <1>1 DEF Txn
  <2>3. txn' = [txn EXCEPT ![w] = r] BY DEF LockUser, IInv, TypeOK
  <2> HIDE DEF r
  <2>4. QED BY <2>1, <2>2, <2>3
<1>6. TxnInv(t)'
  <2>1. ActivateInv(t)' BY <1>1, <1>3, <1>5 DEF ActivateInv
  <2>2. (ClaimInv(t) /\ ClaimedInv(t))'
    BY <1>1, <1>2, <1>5 DEF ClaimInv, ClaimedInv
  <2>3. QED
    BY <1>5, <2>1, <2>2 DEF TxnInv, InsertInv, RevokeInv, GrantInv, RedeemInv, HoldsInv
<1>7. subs[t.sub].status # "none" BY <1>1, <1>2, <1>5 DEF ClaimedInv, Claimable
<1>8. \A v \in Workers \ {w} : txn[v].locks \cap t.locks = {}
  BY <1>1, <1>5 DEF IInv, LocksExclusive, Free
<1>9. QED BY <1>1, <1>3, <1>5, <1>6, <1>7, <1>8, MoveInv

LEMMA BeginRevokeInv ==
    ASSUME IInv, NEW w \in Workers, NEW o \in Orders, NEW kind \in {"refunded", "disputed"},
           BeginRevoke(w, o, kind)
    PROVE  IInv'
<1> USE StatusFacts
<1>1. /\ o \in SubIds /\ Free(w, o) /\ subs[o].status \in Claimable \cup Held
      /\ UNCHANGED <<now, price, users, subs, coupons, gateway, crashes, history>>
  BY DEF BeginRevoke, Revocable
<1>2. /\ subs[o].status # "none" /\ subs[o].user \in Users
      /\ now \in Nat /\ gateway' \in [Orders -> GatewayOrder] /\ crashes' \in Nat
  BY <1>1 DEF Claimable, Held, IInv, RowsSound, TypeOK, SubRow
<1>3. PICK t \in Txn : /\ txn' = [txn EXCEPT ![w] = t]
                       /\ t.pc = "readBest" /\ t.sub = o /\ t.to = kind
                       /\ t.user = subs[o].user /\ t.locks = {o}
  <2> DEFINE r == [NoTxn EXCEPT !.pc = "readBest", !.sub = o, !.to = kind,
                                !.user = subs[o].user, !.at = now, !.locks = {o}]
  <2>1. r \in Txn BY ZenonT(60), <1>1, <1>2, NoTxnType DEF Txn
  <2>2. /\ r.pc = "readBest" /\ r.sub = o /\ r.to = kind
        /\ r.user = subs[o].user /\ r.locks = {o}
    BY DEF NoTxn
  <2>3. txn' = [txn EXCEPT ![w] = r] BY DEF BeginRevoke
  <2> HIDE DEF r
  <2>4. QED BY <2>1, <2>2, <2>3
<1>4. TxnInv(t)'
  BY <1>1, <1>2, <1>3 DEF TxnInv, InsertInv, ClaimInv, ClaimedInv, ActivateInv, RevokeInv,
     GrantInv, RedeemInv, HoldsInv
<1>5. \A v \in Workers \ {w} : txn[v].locks \cap t.locks = {}
  BY <1>1, <1>3 DEF Free
<1>6. QED BY <1>1, <1>2, <1>3, <1>4, <1>5, MoveInv

LEMMA ReadBestInv ==
    ASSUME IInv, NEW w \in Workers, ReadBest(w)
    PROVE  IInv'
<1> USE StatusFacts
<1> DEFINE old == txn[w]
<1>1. /\ old \in Txn /\ TxnInv(old) /\ old.pc = "readBest"
      /\ UNCHANGED <<now, price, users, subs, coupons, gateway, crashes, history>>
      /\ gateway' \in [Orders -> GatewayOrder] /\ crashes' \in Nat
  BY DEF ReadBest, IInv, TypeOK
<1>2. PICK p \in PaidPlans \cup {"free"}, e \in Day :
         txn' = [txn EXCEPT ![w].pc = "revoke", ![w].plan = p, ![w].exp = e]
  <2>1. CASE txn' = [txn EXCEPT ![w].pc = "revoke", ![w].plan = "free", ![w].exp = Null]
    BY <2>1 DEF Day
  <2>2. ASSUME NEW s \in InForceOf(old.user, old.at),
               txn' = [txn EXCEPT ![w].pc = "revoke", ![w].plan = subs[s].plan,
                                  ![w].exp = subs[s].expires]
        PROVE  \E p \in PaidPlans \cup {"free"}, e \in Day :
                  txn' = [txn EXCEPT ![w].pc = "revoke", ![w].plan = p, ![w].exp = e]
    <3>1. subs[s].plan \in PaidPlans /\ subs[s].expires \in Day
      BY DEF InForceOf, InForce, Held, IInv, RowsSound, TypeOK, SubRow
    <3>2. QED BY <2>2, <3>1
  <2>3. QED BY <2>1, <2>2 DEF ReadBest, StillInForce
<1>3. PICK t \in Txn : /\ txn' = [txn EXCEPT ![w] = t]
                       /\ t.pc = "revoke" /\ t.sub = old.sub /\ t.user = old.user
                       /\ t.plan = p /\ t.to = old.to /\ t.locks = old.locks
  <2> DEFINE r == [old EXCEPT !.pc = "revoke", !.plan = p, !.exp = e]
  <2>1. r \in Txn BY <1>1 DEF Txn
  <2>2. /\ r.pc = "revoke" /\ r.sub = old.sub /\ r.user = old.user
        /\ r.plan = p /\ r.to = old.to /\ r.locks = old.locks
    BY <1>1 DEF Txn
  <2>3. txn' = [txn EXCEPT ![w] = r] BY <1>2 DEF IInv, TypeOK
  <2> HIDE DEF r
  <2>4. QED BY <2>1, <2>2, <2>3
<1>4. RevokeInv(old) BY <1>1 DEF TxnInv
<1>5. TxnInv(t)'
  <2>1. RevokeInv(t)' BY <1>1, <1>3, <1>4 DEF RevokeInv
  <2>2. HoldsInv(t)' BY <1>1, <1>3 DEF TxnInv, HoldsInv
  <2>3. QED
    BY <1>3, <2>1, <2>2 DEF TxnInv, InsertInv, ClaimInv, ClaimedInv, ActivateInv, GrantInv,
       RedeemInv
<1>6. subs[t.sub].status # "none" BY <1>1, <1>3, <1>4 DEF RevokeInv, Claimable, Held
<1>7. \A v \in Workers \ {w} : txn[v].locks \cap t.locks = {}
  BY <1>3 DEF IInv, LocksExclusive
<1>8. QED BY <1>1, <1>3, <1>5, <1>6, <1>7, MoveInv

LEMMA BeginGrantInv ==
    ASSUME IInv, NEW w \in Workers, NEW g \in Grants \cup {Null}, NEW u \in Users,
           NEW p \in AdminPlans, NEW d \in GrantDays, NEW allow \in BOOLEAN,
           BeginGrant(w, g, u, p, d, allow)
    PROVE  IInv'
<1> USE StatusFacts
<1> DEFINE to == IF p = "free" \/ PLAN_RANK[p] < PLAN_RANK[LivePlan(users[u], now)]
                 THEN "revoked" ELSE "none"
           exp == IF p \in TimedPlans THEN now + d ELSE Null
<1>1. /\ IF p = "free" THEN g = Null ELSE g # Null /\ Unused(g)
      /\ Free(w, u)
      /\ UNCHANGED <<now, price, users, subs, coupons, gateway, crashes, history>>
  BY DEF BeginGrant, ReadLocked
<1>2. /\ gateway' \in [Orders -> GatewayOrder] /\ crashes' \in Nat /\ now \in Nat
      /\ p \in PaidPlans \cup {"free"} /\ d \in Nat
  BY <1>1, BillingAssumption DEF IInv, TypeOK
<1>3. PICK t \in Txn : /\ txn' = [txn EXCEPT ![w] = t]
                       /\ t.pc = "grant" /\ t.sub = g /\ t.user = u /\ t.plan = p
                       /\ t.locks = {u}
  <2> DEFINE q == [NoTxn EXCEPT !.pc = "grant", !.sub = g, !.user = u, !.plan = p]
             r == [q EXCEPT !.exp = exp, !.to = to, !.at = now, !.locks = {u}]
  <2>1. exp \in Day BY <1>2 DEF Day
  <2>2. to \in {"revoked", "none"} OBVIOUS
  <2> HIDE DEF exp, to
  <2>3. r \in Txn
    <3>1. q \in Txn BY ZenonT(60), <1>2, NoTxnType DEF Txn
    <3> HIDE DEF q
    <3>2. PICK x \in Txn : x = [q EXCEPT !.exp = exp, !.to = to]
      BY ZenonT(60), <2>1, <2>2, <3>1 DEF Txn
    <3>3. r = [x EXCEPT !.at = now, !.locks = {u}]
      BY <3>1, <3>2 DEF Txn
    <3>4. QED BY ZenonT(60), <1>2, <3>2, <3>3 DEF Txn
  <2>4. /\ r.pc = "grant" /\ r.sub = g /\ r.user = u /\ r.plan = p /\ r.locks = {u}
    BY DEF NoTxn
  <2>5. txn' = [txn EXCEPT ![w] = r] BY DEF BeginGrant, exp, to
  <2> HIDE DEF r
  <2>6. QED BY <2>3, <2>4, <2>5
<1>4. g # Null => subs[g].status = "none" /\ \A v \in Workers : txn[v].sub # g
  BY <1>1 DEF Unused
<1>5. TxnInv(t)'
  BY <1>1, <1>2, <1>3, <1>4 DEF TxnInv, InsertInv, ClaimInv, ClaimedInv, ActivateInv,
     RevokeInv, GrantInv, RedeemInv, HoldsInv
<1>6. \A v \in Workers \ {w} : txn[v].locks \cap t.locks = {}
  BY <1>1, <1>3 DEF Free
<1>7. QED BY <1>1, <1>2, <1>3, <1>4, <1>5, <1>6, MoveInv

LEMMA BeginRedeemInv ==
    ASSUME IInv, NEW w \in Workers, NEW c \in Coupons, BeginRedeem(w, c)
    PROVE  IInv'
<1> USE StatusFacts
<1>1. /\ c \in SubIds /\ Free(w, c) /\ coupons[c] = "unused"
      /\ UNCHANGED <<now, price, users, subs, coupons, gateway, crashes, history>>
  BY DEF BeginRedeem
<1>2. /\ gateway' \in [Orders -> GatewayOrder] /\ crashes' \in Nat /\ now \in Nat
      /\ CouponOwner[c] \in Users
  BY <1>1, BillingAssumption DEF IInv, TypeOK
<1>3. PICK t \in Txn : /\ txn' = [txn EXCEPT ![w] = t]
                       /\ t.pc = "redeem" /\ t.sub = c /\ t.user = CouponOwner[c]
                       /\ t.plan = "lifetime" /\ t.locks = {c}
  <2> DEFINE r == [NoTxn EXCEPT !.pc = "redeem", !.sub = c, !.user = CouponOwner[c],
                                !.plan = "lifetime", !.at = now, !.locks = {c}]
  <2>1. r \in Txn BY <1>1, <1>2, NoTxnType DEF Txn
  <2>2. /\ r.pc = "redeem" /\ r.sub = c /\ r.user = CouponOwner[c]
        /\ r.plan = "lifetime" /\ r.locks = {c}
    BY DEF NoTxn
  <2>3. txn' = [txn EXCEPT ![w] = r] BY DEF BeginRedeem
  <2> HIDE DEF r
  <2>4. QED BY <2>1, <2>2, <2>3
<1>4. TxnInv(t)'
  BY <1>1, <1>2, <1>3 DEF TxnInv, InsertInv, ClaimInv, ClaimedInv, ActivateInv, RevokeInv,
     GrantInv, RedeemInv, HoldsInv
<1>5. \A v \in Workers \ {w} : txn[v].locks \cap t.locks = {}
  BY <1>1, <1>3 DEF Free
<1>6. QED BY <1>1, <1>2, <1>3, <1>4, <1>5, MoveInv

LEMMA FailureInv ==
    ASSUME IInv, NEW w \in Workers, Abort(w) \/ DeadlockVictim(w)
    PROVE  IInv'
<1>1. /\ Done(w) /\ crashes' \in Nat
      /\ UNCHANGED <<now, price, users, subs, coupons, gateway, history>>
  BY DEF Abort, DeadlockVictim, IInv, TypeOK
<1>2. QED BY <1>1, IdleInv

----------------------------------------------------------------------------
(* The commits *)

LEMMA InsertOrderInv ==
    ASSUME IInv, NEW w \in Workers, InsertOrder(w)
    PROVE  IInv'
<1> USE StatusFacts
<1> DEFINE old == txn[w]
<1>1. /\ old \in Txn /\ InsertInv(old) /\ old.pc = "insert"
      /\ UNCHANGED <<now, price, users, coupons, crashes, history>>
      /\ txn' = [txn EXCEPT ![w] = NoTxn]
  BY DEF InsertOrder, Done, IInv, TypeOK, TxnInv
<1>2. /\ subs' = [subs EXCEPT ![old.sub] = NewOrder(old.user, old.plan, old.amount)]
      /\ gateway' = [gateway EXCEPT ![old.sub] = Unpaid(old.amount)]
  BY DEF InsertOrder
<1>3. /\ old.sub \in Orders /\ subs[old.sub].status = "none" /\ old.user \in Users
      /\ old.plan \in OnSale /\ old.amount \in Prices \cup {Null}
      /\ activations[old.sub] = 0
  BY <1>1 DEF InsertInv, Txn, IInv, RowsSound
<1>4. PICK row \in SubRow : /\ subs' = [subs EXCEPT ![old.sub] = row]
                            /\ row.status = "pending" /\ row.user = old.user
                            /\ row.plan = old.plan
  <2>1. PICK u \in Users, p \in PaidPlans, a \in Prices \cup {Null} :
           u = old.user /\ p = old.plan /\ a = old.amount
    BY <1>3
  <2>2. NewOrder(u, p, a) \in SubRow /\ subs' = [subs EXCEPT ![old.sub] = NewOrder(u, p, a)]
    BY <1>2, <2>1, NewOrderType
  <2>3. NewOrder(u, p, a).status = "pending" /\ NewOrder(u, p, a).user = u
        /\ NewOrder(u, p, a).plan = p
    BY NewOrderType
  <2>4. QED BY <2>1, <2>2, <2>3
<1>5. PICK pay \in GatewayOrder : /\ gateway' = [gateway EXCEPT ![old.sub] = pay]
                                  /\ pay.pay = "open"
  <2>1. PICK a \in Prices \cup {Null} : a = old.amount BY <1>3
  <2>2. Unpaid(a) \in GatewayOrder /\ Unpaid(a).pay = "open" BY UnpaidType
  <2>3. gateway' = [gateway EXCEPT ![old.sub] = Unpaid(a)] BY <1>2, <2>1
  <2>4. QED BY <2>2, <2>3
<1>6. TypeOK'
  <2>1. subs' \in [SubIds -> SubRow] BY <1>3, <1>4 DEF IInv, TypeOK
  <2>2. gateway' \in [Orders -> GatewayOrder] BY <1>3, <1>5 DEF IInv, TypeOK
  <2>3. txn' \in [Workers -> Txn] BY <1>1, NoTxnType DEF IInv, TypeOK
  <2>4. QED BY <1>1, <2>1, <2>2, <2>3 DEF IInv, TypeOK, history
<1>7. RowsSound'
  <2>1. \A s \in SubIds \ {old.sub} : subs'[s] = subs[s] BY <1>4 DEF IInv, TypeOK
  <2>2. /\ subs'[old.sub].status = "pending" /\ subs'[old.sub].user \in Users
        /\ subs'[old.sub].plan \in OnSale
    BY <1>3, <1>4 DEF IInv, TypeOK
  <2>3. RowsSound /\ activations' = activations BY <1>1 DEF IInv, history
  <2>4. SUFFICES ASSUME NEW s \in SubIds PROVE
           /\ subs'[s].status = "none" <=> subs'[s].user = Null
           /\ subs'[s].status # "none" => subs'[s].plan \in PaidPlans
           /\ subs'[s].status \in Claimable => s \in Orders /\ subs'[s].plan \in OnSale
           /\ subs'[s].status \in {"none"} \cup Claimable => activations'[s] = 0
    BY DEF RowsSound
  <2>5. CASE s = old.sub BY <1>3, <2>2, <2>3, <2>5 DEF Claimable
  <2>6. CASE s # old.sub BY <2>1, <2>3, <2>6 DEF RowsSound
  <2>7. QED BY <2>5, <2>6
<1>8. UnstoredUnpaid' BY <1>3, <1>4, <1>5 DEF IInv, TypeOK, UnstoredUnpaid
<1>9. (UnusedCoupons /\ ExactlyOnce)'
  BY BillingAssumption, <1>1, <1>2, <1>3, <1>4 DEF IInv, TypeOK, UnusedCoupons,
     ExactlyOnce, history
<1>10. \A v \in Workers \ {w} : txn'[v] = txn[v] /\ Undisturbed(txn[v])
  <2>1. SUFFICES ASSUME NEW v \in Workers \ {w} PROVE Undisturbed(txn[v])
    BY <1>1 DEF IInv, TypeOK
  <2>2. txn[v].sub # old.sub BY <1>1, <1>3 DEF IInv, NewIdsExclusive
  <2>3. \A o \in Orders : gateway[o].pay = "captured" => gateway'[o].pay = "captured"
    BY <1>2, <1>3 DEF IInv, TypeOK, UnstoredUnpaid
  <2>4. QED BY <1>1, <1>2, <1>3, <2>2, <2>3 DEF Undisturbed, IInv, TypeOK
<1>11. txn'[w] = NoTxn BY <1>1 DEF IInv, TypeOK
<1>12. QED BY <1>6, <1>7, <1>8, <1>9, <1>10, <1>11, EndOrKeepInv

LEMMA CommitActivationInv ==
    ASSUME IInv, NEW w \in Workers, CommitActivation(w)
    PROVE  IInv'
<1> USE StatusFacts
<1> DEFINE old == txn[w]
<1>1. /\ old \in Txn /\ ClaimInv(old) /\ ClaimedInv(old) /\ ActivateInv(old)
      /\ old.pc = "activate"
      /\ UNCHANGED <<now, price, coupons, gateway, crashes>>
      /\ txn' = [txn EXCEPT ![w] = NoTxn]
  BY DEF CommitActivation, Done, IInv, TypeOK, TxnInv
<1>2. /\ old.sub \in Orders /\ old.sub \in SubIds /\ subs[old.sub].status \in Claimable
      /\ old.sub \in old.locks /\ old.user \in Users /\ old.user \in old.locks
      /\ old.plan \in PaidPlans /\ old.exp \in Day /\ old.at \in Nat
      /\ subs[old.sub].user = old.user /\ activations[old.sub] = 0
  BY <1>1 DEF ClaimInv, ClaimedInv, ActivateInv, Txn, IInv, RowsSound
<1>3. /\ subs' = [subs EXCEPT ![old.sub].status = "active", ![old.sub].expires = old.exp]
      /\ activations' = [activations EXCEPT ![old.sub] = @ + 1]
  BY DEF CommitActivation
<1>4. PICK row \in SubRow : /\ subs' = [subs EXCEPT ![old.sub] = row]
                            /\ row.status = "active" /\ row.user = old.user
                            /\ row.plan = subs[old.sub].plan
  <2> DEFINE r == [subs[old.sub] EXCEPT !.status = "active", !.expires = old.exp]
  <2>1. subs[old.sub] \in SubRow BY <1>2 DEF IInv, TypeOK
  <2>2. r \in SubRow /\ r.status = "active" /\ r.user = old.user /\ r.plan = subs[old.sub].plan
    BY <1>2, <2>1 DEF SubRow
  <2>3. subs' = [subs EXCEPT ![old.sub] = r] BY <1>2, <1>3 DEF IInv, TypeOK
  <2> HIDE DEF r
  <2>4. QED BY <2>2, <2>3
<1>5. PICK usr \in UserRow : users' = [users EXCEPT ![old.user] = usr]
  <2> DEFINE r == [users[old.user] EXCEPT !.plan = old.plan, !.planExp = old.exp,
                                          !.trialExp = EndTrial(@, old.at)]
  <2>1. CASE users' = users
    BY <1>2, <2>1 DEF IInv, TypeOK
  <2>2. CASE users' = [users EXCEPT ![old.user].plan = old.plan, ![old.user].planExp = old.exp,
                                    ![old.user].trialExp = EndTrial(@, old.at)]
    <3>1. users[old.user] \in UserRow BY <1>2 DEF IInv, TypeOK
    <3>2. EndTrial(users[old.user].trialExp, old.at) \in Day
      BY <1>2, <3>1, EndTrialType DEF UserRow
    <3>3. r \in UserRow BY <1>2, <3>1, <3>2 DEF UserRow
    <3>4. users' = [users EXCEPT ![old.user] = r] BY <1>2, <2>2 DEF IInv, TypeOK
    <3> HIDE DEF r
    <3>5. QED BY <3>3, <3>4
  <2>3. QED BY <2>1, <2>2 DEF CommitActivation
<1>6. applied' \in SUBSET SubIds BY <1>2 DEF CommitActivation, IInv, TypeOK
<1>7. TypeOK'
  BY <1>1, <1>2, <1>3, <1>4, <1>5, <1>6, NoTxnType DEF IInv, TypeOK
<1>8. (RowsSound /\ UnstoredUnpaid)'
  BY SMTT(30), <1>1, <1>2, <1>3, <1>4 DEF IInv, TypeOK, RowsSound, UnstoredUnpaid, Claimable
<1>9. (UnusedCoupons /\ ExactlyOnce)'
  BY BillingAssumption, <1>1, <1>2, <1>3, <1>4 DEF IInv, TypeOK, UnusedCoupons, ExactlyOnce
<1>10. \A v \in Workers \ {w} : txn'[v] = txn[v] /\ Undisturbed(txn[v])
  <2>1. SUFFICES ASSUME NEW v \in Workers \ {w} PROVE Undisturbed(txn[v])
    BY <1>1 DEF IInv, TypeOK
  <2>2. old.sub \notin txn[v].locks /\ old.user \notin txn[v].locks
    BY <1>2 DEF IInv, LocksExclusive
  <2>3. txn[v].pc \in {"insert", "grant"} => txn[v].sub # old.sub
    BY <1>1, <1>2 DEF IInv, NewIdsExclusive
  <2>4. QED BY <1>1, <1>2, <1>4, <1>5, <2>2, <2>3 DEF Undisturbed, IInv, TypeOK
<1>11. txn'[w] = NoTxn BY <1>1 DEF IInv, TypeOK
<1>12. QED BY <1>7, <1>8, <1>9, <1>10, <1>11, EndOrKeepInv

LEMMA CommitRevokeInv ==
    ASSUME IInv, NEW w \in Workers, CommitRevoke(w)
    PROVE  IInv'
<1> USE StatusFacts
<1> DEFINE old == txn[w]
<1>1. /\ old \in Txn /\ RevokeInv(old) /\ old.pc = "revoke" /\ Free(w, old.user)
      /\ UNCHANGED <<now, price, coupons, gateway, crashes, history>>
      /\ txn' = [txn EXCEPT ![w] = NoTxn]
  BY DEF CommitRevoke, Done, IInv, TypeOK, TxnInv
<1>2. /\ old.sub \in Orders /\ old.sub \in SubIds /\ old.sub \in old.locks
      /\ subs[old.sub].status \in Claimable \cup Held
      /\ old.user \in Users /\ old.plan \in PaidPlans \cup {"free"} /\ old.exp \in Day
      /\ old.to \in {"refunded", "disputed"}
  BY <1>1 DEF RevokeInv, Txn
<1>3. PICK row \in SubRow : /\ subs' = [subs EXCEPT ![old.sub] = row]
                            /\ row.status = old.to /\ row.user = subs[old.sub].user
                            /\ row.plan = subs[old.sub].plan
  <2> DEFINE n == IF old.to = "refunded" THEN 2 ELSE subs[old.sub].refunded
             r == [subs[old.sub] EXCEPT !.status = old.to, !.refunded = n]
  <2>1. subs[old.sub] \in SubRow BY <1>2 DEF IInv, TypeOK
  <2>2. n \in 0..2 BY <2>1 DEF SubRow
  <2>3. subs' = [subs EXCEPT ![old.sub] = r] BY <1>2 DEF CommitRevoke, IInv, TypeOK
  <2> HIDE DEF n
  <2>4. r \in SubRow /\ r.status = old.to /\ r.user = subs[old.sub].user
        /\ r.plan = subs[old.sub].plan
    BY <1>2, <2>1, <2>2 DEF SubRow
  <2> HIDE DEF r
  <2>5. QED BY <2>3, <2>4
<1>4. PICK usr \in UserRow : users' = [users EXCEPT ![old.user] = usr]
  <2> DEFINE r == [users[old.user] EXCEPT !.plan = old.plan, !.planExp = old.exp]
  <2>1. users[old.user] \in UserRow BY <1>2 DEF IInv, TypeOK
  <2>2. r \in UserRow BY <1>2, <2>1 DEF UserRow
  <2>3. users' = [users EXCEPT ![old.user] = r] BY <1>2 DEF CommitRevoke, IInv, TypeOK
  <2> HIDE DEF r
  <2>4. QED BY <2>2, <2>3
<1>5. TypeOK'
  <2>1. subs' \in [SubIds -> SubRow] /\ users' \in [Users -> UserRow]
    BY <1>2, <1>3, <1>4 DEF IInv, TypeOK
  <2>2. txn' \in [Workers -> Txn] BY <1>1, NoTxnType DEF IInv, TypeOK
  <2>3. QED BY <1>1, <2>1, <2>2 DEF IInv, TypeOK, history
<1>6. /\ \A s \in SubIds \ {old.sub} : subs'[s] = subs[s]
      /\ subs'[old.sub].status \in {"refunded", "disputed"}
      /\ subs'[old.sub].user = subs[old.sub].user /\ subs'[old.sub].plan = subs[old.sub].plan
  BY <1>2, <1>3 DEF IInv, TypeOK
<1>7. subs[old.sub].status # "none" BY <1>2 DEF Claimable, Held
<1>8. (RowsSound /\ UnstoredUnpaid)'
  <2>1. RowsSound /\ UnstoredUnpaid /\ UNCHANGED <<activations, gateway>>
    BY <1>1 DEF IInv, history
  <2>2. QED BY <1>6, <1>7, <2>1 DEF RowsSound, UnstoredUnpaid, Claimable
<1>9. (UnusedCoupons /\ ExactlyOnce)'
  <2>1. UnusedCoupons /\ ExactlyOnce /\ UNCHANGED <<activations, coupons>>
    BY <1>1 DEF IInv, history
  <2>2. QED BY <1>6, <1>7, <2>1 DEF UnusedCoupons, ExactlyOnce
<1>10. \A v \in Workers \ {w} : txn'[v] = txn[v] /\ Undisturbed(txn[v])
  <2>1. SUFFICES ASSUME NEW v \in Workers \ {w} PROVE Undisturbed(txn[v])
    BY <1>1 DEF IInv, TypeOK
  <2>2. old.sub \notin txn[v].locks /\ old.user \notin txn[v].locks
    BY <1>1, <1>2 DEF IInv, LocksExclusive, Free
  <2>3. txn[v].pc \in {"insert", "grant"} /\ txn[v].sub \in SubIds => txn[v].sub # old.sub
    <3>1. txn[v].pc \in {"insert", "grant"} /\ txn[v].sub \in SubIds =>
             subs[txn[v].sub].status = "none"
      BY DEF IInv, TxnInv, InsertInv, GrantInv
    <3>2. QED BY <1>7, <3>1
  <2>4. /\ UNCHANGED <<now, gateway, coupons>> /\ now \in Nat
        /\ \A u \in Users \ {old.user} : users'[u] = users[u]
    BY <1>1, <1>2, <1>4 DEF IInv, TypeOK
  <2>5. QED BY <1>2, <1>6, <2>2, <2>3, <2>4 DEF Undisturbed
<1>11. txn'[w] = NoTxn BY <1>1 DEF IInv, TypeOK
<1>12. QED BY <1>5, <1>8, <1>9, <1>10, <1>11, EndOrKeepInv

LEMMA CommitRedeemInv ==
    ASSUME IInv, NEW w \in Workers, CommitRedeem(w)
    PROVE  IInv'
<1> USE StatusFacts
<1> DEFINE old == txn[w]
<1>1. /\ old \in Txn /\ RedeemInv(old) /\ old.pc = "redeem" /\ Free(w, old.user)
      /\ UNCHANGED <<now, price, gateway, crashes>>
      /\ txn' = [txn EXCEPT ![w] = NoTxn]
  BY DEF CommitRedeem, Done, IInv, TypeOK, TxnInv
<1>2. /\ old.sub \in Coupons /\ old.sub \in SubIds /\ old.sub \in old.locks
      /\ old.user \in Users /\ old.plan = "lifetime" /\ old.at \in Nat
      /\ subs[old.sub].status = "none" /\ activations[old.sub] = 0
  BY <1>1 DEF RedeemInv, Txn, IInv, UnusedCoupons, RowsSound
<1>3. PICK row \in SubRow : /\ subs' = [subs EXCEPT ![old.sub] = row]
                            /\ row.status = "active" /\ row.user = old.user
                            /\ row.plan = "lifetime"
  <2> DEFINE r == [NoSub EXCEPT !.status = "active", !.user = old.user, !.plan = old.plan]
  <2>1. NoSub \in SubRow BY DEF NoSub, SubRow, Day
  <2>2. r \in SubRow /\ r.status = "active" /\ r.user = old.user /\ r.plan = "lifetime"
    BY <1>2, <2>1 DEF SubRow
  <2>3. subs' = [subs EXCEPT ![old.sub] = r] BY <1>2 DEF CommitRedeem, IInv, TypeOK
  <2> HIDE DEF r
  <2>4. QED BY <2>2, <2>3
<1>4. PICK usr \in UserRow : users' = [users EXCEPT ![old.user] = usr]
  <2> DEFINE r == [users[old.user] EXCEPT !.plan = old.plan, !.planExp = Null,
                                          !.trialExp = EndTrial(@, old.at)]
  <2>1. users[old.user] \in UserRow BY <1>2 DEF IInv, TypeOK
  <2>2. EndTrial(users[old.user].trialExp, old.at) \in Day
    BY <1>2, <2>1, EndTrialType DEF UserRow
  <2>3. r \in UserRow BY <1>2, <2>1, <2>2 DEF UserRow, Day
  <2>4. users' = [users EXCEPT ![old.user] = r] BY <1>2 DEF CommitRedeem, IInv, TypeOK
  <2> HIDE DEF r
  <2>5. QED BY <2>3, <2>4
<1>5. /\ coupons' = [coupons EXCEPT ![old.sub] = "used"]
      /\ activations' = [activations EXCEPT ![old.sub] = @ + 1]
      /\ applied' = applied \cup {old.sub}
  BY DEF CommitRedeem
<1>6. TypeOK'
  <2>1. subs' \in [SubIds -> SubRow] /\ users' \in [Users -> UserRow]
    BY <1>2, <1>3, <1>4 DEF IInv, TypeOK
  <2>2. txn' \in [Workers -> Txn] BY <1>1, NoTxnType DEF IInv, TypeOK
  <2>3. /\ coupons' \in [Coupons -> {"unused", "used"}]
        /\ activations' \in [SubIds -> Nat] /\ applied' \in SUBSET SubIds
    BY <1>2, <1>5 DEF IInv, TypeOK
  <2>4. QED BY <1>1, <2>1, <2>2, <2>3 DEF IInv, TypeOK
<1>7. /\ \A s \in SubIds \ {old.sub} : /\ subs'[s] = subs[s]
                                       /\ activations'[s] = activations[s]
      /\ \A c \in Coupons \ {old.sub} : coupons'[c] = coupons[c]
      /\ \A u \in Users \ {old.user} : users'[u] = users[u]
      /\ subs'[old.sub].status = "active" /\ subs'[old.sub].user \in Users
      /\ subs'[old.sub].plan = "lifetime" /\ activations'[old.sub] = 1
      /\ coupons'[old.sub] = "used"
  BY <1>2, <1>3, <1>4, <1>5 DEF IInv, TypeOK
<1>8. (RowsSound /\ UnstoredUnpaid)'
  <2>1. RowsSound /\ UnstoredUnpaid /\ UNCHANGED gateway BY <1>1 DEF IInv
  <2>2. QED BY <1>7, <2>1 DEF RowsSound, UnstoredUnpaid, Claimable
<1>9. (UnusedCoupons /\ ExactlyOnce)'
  <2>1. UnusedCoupons /\ ExactlyOnce BY DEF IInv
  <2>2. QED BY <1>7, <2>1 DEF UnusedCoupons, ExactlyOnce
<1>10. \A v \in Workers \ {w} : txn'[v] = txn[v] /\ Undisturbed(txn[v])
  <2>1. SUFFICES ASSUME NEW v \in Workers \ {w} PROVE Undisturbed(txn[v])
    BY <1>1 DEF IInv, TypeOK
  <2>2. old.sub \notin txn[v].locks /\ old.user \notin txn[v].locks
    BY <1>1, <1>2 DEF IInv, LocksExclusive, Free
  <2>3. txn[v].pc \in {"insert", "grant"} /\ txn[v].sub \in SubIds => txn[v].sub # old.sub
    BY <1>2, BillingAssumption DEF IInv, TxnInv, InsertInv, GrantInv
  <2>4. UNCHANGED <<now, gateway>> /\ now \in Nat BY <1>1 DEF IInv, TypeOK
  <2>5. QED BY <1>2, <1>7, <2>2, <2>3, <2>4 DEF Undisturbed
<1>11. txn'[w] = NoTxn BY <1>1 DEF IInv, TypeOK
<1>12. QED BY <1>6, <1>8, <1>9, <1>10, <1>11, EndOrKeepInv

LEMMA CommitGrantInv ==
    ASSUME IInv, NEW w \in Workers, CommitGrant(w)
    PROVE  IInv'
<1> USE StatusFacts
<1> DEFINE old == txn[w]
           Victims == GrantVictims(old)
           row == [NoSub EXCEPT !.status = "active", !.user = old.user, !.plan = old.plan,
                                !.expires = old.exp]
<1>1. /\ old \in Txn /\ GrantInv(old) /\ old.pc = "grant"
      /\ \A s \in Victims : Free(w, s)
      /\ UNCHANGED <<now, price, coupons, gateway, crashes>>
      /\ txn' = [txn EXCEPT ![w] = NoTxn]
  BY DEF CommitGrant, Done, IInv, TypeOK, TxnInv
<1>2. /\ old.user \in Users /\ old.user \in old.locks /\ old.at \in Nat /\ old.exp \in Day
      /\ old.plan \in PaidPlans \cup {"free"}
      /\ old.sub = Null \/ /\ old.sub \in Grants /\ old.sub \in SubIds /\ old.plan \in PaidPlans
                           /\ subs[old.sub].status = "none" /\ activations[old.sub] = 0
  BY <1>1 DEF GrantInv, Txn, IInv, RowsSound
<1>3. \A s \in Victims : s \in SubIds /\ subs[s].status \in Held
  BY DEF GrantVictims
<1>4. old.sub # Null => /\ row \in SubRow /\ row.status = "active"
                        /\ row.user = old.user /\ row.plan = old.plan
  <2>1. NoSub \in SubRow BY DEF NoSub, SubRow, Day
  <2>2. QED BY <1>2, <2>1 DEF SubRow
<1>5. subs' = [s \in SubIds |-> IF s \in Victims THEN [subs[s] EXCEPT !.status = "revoked"]
                                ELSE IF s = old.sub THEN row ELSE subs[s]]
  BY DEF CommitGrant
<1> HIDE DEF Victims, row
<1>6. \A s \in SubIds : /\ subs[s] \in SubRow
                        /\ [subs[s] EXCEPT !.status = "revoked"] \in SubRow
                        /\ [subs[s] EXCEPT !.status = "revoked"].status = "revoked"
                        /\ [subs[s] EXCEPT !.status = "revoked"].user = subs[s].user
                        /\ [subs[s] EXCEPT !.status = "revoked"].plan = subs[s].plan
  <2>1. SUFFICES ASSUME NEW s \in SubIds PROVE
           /\ subs[s] \in SubRow
           /\ [subs[s] EXCEPT !.status = "revoked"] \in SubRow
           /\ [subs[s] EXCEPT !.status = "revoked"].status = "revoked"
           /\ [subs[s] EXCEPT !.status = "revoked"].user = subs[s].user
           /\ [subs[s] EXCEPT !.status = "revoked"].plan = subs[s].plan
    OBVIOUS
  <2>2. subs[s] \in SubRow BY DEF IInv, TypeOK
  <2>3. QED BY <2>2 DEF SubRow
<1>7. \A s \in SubIds :
         /\ subs'[s] \in SubRow
         /\ s \in Victims => /\ subs[s].status \in Held /\ subs'[s].status = "revoked"
                             /\ subs'[s].user = subs[s].user /\ subs'[s].plan = subs[s].plan
         /\ s = old.sub => /\ subs[s].status = "none" /\ subs'[s].status = "active"
                           /\ subs'[s].user \in Users /\ subs'[s].plan \in PaidPlans
         /\ s \notin Victims /\ s # old.sub => subs'[s] = subs[s]
  BY <1>2, <1>3, <1>4, <1>5, <1>6 DEF Held
<1>8. /\ activations' = [s \in SubIds |-> activations[s] + IF s = old.sub THEN 1 ELSE 0]
      /\ applied' = applied \cup ({old.sub} \ {Null})
  BY DEF CommitGrant
<1>9. PICK usr \in UserRow : users' = [users EXCEPT ![old.user] = usr]
  <2> DEFINE r == [users[old.user] EXCEPT !.plan = old.plan, !.planExp = old.exp,
                                          !.trialExp = EndTrial(@, old.at)]
  <2>1. users[old.user] \in UserRow BY <1>2 DEF IInv, TypeOK
  <2>2. EndTrial(users[old.user].trialExp, old.at) \in Day
    BY <1>2, <2>1, EndTrialType DEF UserRow
  <2>3. r \in UserRow BY <1>2, <2>1, <2>2 DEF UserRow
  <2>4. users' = [users EXCEPT ![old.user] = r] BY <1>2 DEF CommitGrant, IInv, TypeOK
  <2> HIDE DEF r
  <2>5. QED BY <2>3, <2>4
<1>10. TypeOK'
  <2>1. subs' \in [SubIds -> SubRow] BY <1>5, <1>7
  <2>2. users' \in [Users -> UserRow] BY <1>2, <1>9 DEF IInv, TypeOK
  <2>3. txn' \in [Workers -> Txn] BY <1>1, NoTxnType DEF IInv, TypeOK
  <2>4. activations' \in [SubIds -> Nat] /\ applied' \in SUBSET SubIds
    BY <1>2, <1>8 DEF IInv, TypeOK
  <2>5. QED BY <1>1, <2>1, <2>2, <2>3, <2>4 DEF IInv, TypeOK
<1>11. \A s \in SubIds : /\ s # old.sub => activations'[s] = activations[s]
                         /\ s = old.sub => activations'[s] = 1
  BY <1>2, <1>8 DEF IInv, TypeOK
<1>12. RowsSound'
  <2>1. RowsSound BY DEF IInv
  <2>2. QED BY <1>7, <1>11, <2>1 DEF RowsSound, Claimable, Held
<1>13. (UnstoredUnpaid /\ UnusedCoupons)'
  <2>1. UnstoredUnpaid /\ UnusedCoupons /\ UNCHANGED <<gateway, coupons>>
    BY <1>1 DEF IInv
  <2>2. old.sub \notin Orders /\ old.sub \notin Coupons BY <1>2, BillingAssumption
  <2>3. QED BY <1>7, <2>1, <2>2 DEF UnstoredUnpaid, UnusedCoupons, Held
<1>14. ExactlyOnce'
  <2>1. ExactlyOnce BY DEF IInv
  <2>2. QED BY <1>11, <2>1 DEF ExactlyOnce
<1>15. \A v \in Workers \ {w} : txn'[v] = txn[v] /\ Undisturbed(txn[v])
  <2>1. SUFFICES ASSUME NEW v \in Workers \ {w} PROVE Undisturbed(txn[v])
    BY <1>1 DEF IInv, TypeOK
  <2>2. old.user \notin txn[v].locks /\ \A s \in Victims : s \notin txn[v].locks
    BY <1>1, <1>2 DEF IInv, LocksExclusive, Free
  <2>3. txn[v].pc \in {"insert", "grant"} /\ txn[v].sub \in SubIds =>
           subs'[txn[v].sub] = subs[txn[v].sub]
    <3>1. txn[v].pc \in {"insert", "grant"} /\ txn[v].sub \in SubIds =>
             subs[txn[v].sub].status = "none" /\ txn[v].sub # old.sub
      BY <1>1 DEF IInv, TxnInv, InsertInv, GrantInv, NewIdsExclusive
    <3>2. QED BY <1>7, <3>1 DEF Held
  <2>4. txn[v].sub \in SubIds /\ txn[v].sub \in txn[v].locks => txn[v].sub # old.sub
    BY <1>1, <1>2 DEF IInv, NewIdsExclusive
  <2>5. /\ UNCHANGED <<now, gateway, coupons>> /\ now \in Nat
        /\ \A u \in Users \ {old.user} : users'[u] = users[u]
    BY <1>1, <1>2, <1>9 DEF IInv, TypeOK
  <2>6. \A s \in SubIds : subs[s].status # "none" =>
           subs'[s].user = subs[s].user /\ subs'[s].plan = subs[s].plan
    BY <1>7
  <2>7. QED BY <1>7, <2>2, <2>3, <2>4, <2>5, <2>6 DEF Undisturbed
<1>16. txn'[w] = NoTxn BY <1>1 DEF IInv, TypeOK
<1>17. QED BY <1>10, <1>12, <1>13, <1>14, <1>15, <1>16, EndOrKeepInv

----------------------------------------------------------------------------
(* The rest: statements of one step, the gateway, the clock, restarts *)

LEMMA RecordPartialRefundInv ==
    ASSUME IInv, NEW o \in Orders, RecordPartialRefund(o)
    PROVE  IInv'
<1> USE StatusFacts
<1> DEFINE n == IF subs[o].refunded > 1 THEN subs[o].refunded ELSE 1
           row == [subs[o] EXCEPT !.refunded = n]
<1>1. /\ o \in SubIds /\ subs[o] \in SubRow /\ subs' = [subs EXCEPT ![o] = row]
      /\ UNCHANGED <<now, price, users, coupons, gateway, txn, crashes, history>>
  BY DEF RecordPartialRefund, Greatest, IInv, TypeOK
<1>2. n \in 0..2 BY <1>1 DEF SubRow
<1> HIDE DEF n
<1>3. /\ row \in SubRow /\ row.status = subs[o].status /\ row.user = subs[o].user
      /\ row.plan = subs[o].plan
  BY <1>1, <1>2 DEF SubRow
<1> HIDE DEF row
<1>4. \A s \in SubIds : /\ subs'[s] \in SubRow /\ subs'[s].status = subs[s].status
                        /\ subs'[s].user = subs[s].user /\ subs'[s].plan = subs[s].plan
  BY <1>1, <1>3 DEF IInv, TypeOK
<1>5. TypeOK' BY <1>1, <1>3 DEF IInv, TypeOK, history
<1>6. (RowsSound /\ UnstoredUnpaid /\ UnusedCoupons /\ ExactlyOnce)'
  BY <1>1, <1>4 DEF IInv, RowsSound, UnstoredUnpaid, UnusedCoupons, ExactlyOnce, history
<1>7. \A v \in Workers : txn'[v] = txn[v] /\ Undisturbed(txn[v])
  BY <1>1, <1>4 DEF Undisturbed, IInv, TypeOK
<1>8. QED BY <1>5, <1>6, <1>7, EndOrKeepInv

LEMMA CancelInv ==
    ASSUME IInv, NEW u \in Users, Cancel(u)
    PROVE  IInv'
<1> USE StatusFacts
<1>1. /\ \A s \in Cancellable(u), w \in Workers : s \notin txn[w].locks
      /\ \A s \in Cancellable(u) : s \in SubIds /\ subs[s].status = "active"
      /\ UNCHANGED <<now, price, users, coupons, gateway, txn, crashes, history>>
  BY DEF Cancel, Cancellable, InForceOf
<1>2. \A s \in SubIds :
         /\ subs'[s] \in SubRow
         /\ subs'[s].user = subs[s].user /\ subs'[s].plan = subs[s].plan
         /\ IF s \in Cancellable(u)
            THEN subs[s].status = "active" /\ subs'[s].status = "cancelled"
            ELSE subs'[s].status = subs[s].status
  <2>1. SUFFICES ASSUME NEW s \in SubIds PROVE
         /\ subs'[s] \in SubRow
         /\ subs'[s].user = subs[s].user /\ subs'[s].plan = subs[s].plan
         /\ IF s \in Cancellable(u)
            THEN subs[s].status = "active" /\ subs'[s].status = "cancelled"
            ELSE subs'[s].status = subs[s].status
    OBVIOUS
  <2>2. subs[s] \in SubRow BY DEF IInv, TypeOK
  <2>3. subs'[s] = IF s \in Cancellable(u) THEN [subs[s] EXCEPT !.status = "cancelled"]
                   ELSE subs[s]
    BY DEF Cancel
  <2>4. QED BY <1>1, <2>2, <2>3 DEF SubRow
<1>3. TypeOK'
  <2>1. subs' \in [SubIds -> SubRow]
    <3>1. subs' = [s \in SubIds |-> subs'[s]] BY DEF Cancel
    <3>2. QED BY <1>2, <3>1
  <2>2. QED BY <1>1, <2>1 DEF IInv, TypeOK, history
<1>4. (RowsSound /\ UnstoredUnpaid /\ UnusedCoupons /\ ExactlyOnce)'
  BY <1>1, <1>2 DEF IInv, RowsSound, UnstoredUnpaid, UnusedCoupons, ExactlyOnce, history,
     Claimable
<1>5. \A v \in Workers : txn'[v] = txn[v] /\ Undisturbed(txn[v])
  <2>1. SUFFICES ASSUME NEW v \in Workers PROVE Undisturbed(txn[v]) BY <1>1
  <2>2. txn[v].pc \in {"insert", "grant"} /\ txn[v].sub \in SubIds =>
           subs[txn[v].sub].status = "none"
    BY DEF IInv, TxnInv, InsertInv, GrantInv
  <2>3. now \in Nat BY DEF IInv, TypeOK
  <2>4. QED BY <1>1, <1>2, <2>2, <2>3 DEF Undisturbed
<1>6. QED BY <1>3, <1>4, <1>5, EndOrKeepInv

(* The gateway, the prices and the clock. *)
LEMMA WorldInv ==
    ASSUME IInv,
           \/ \E o \in Orders : Pay(o) \/ AutoCapture(o) \/ Dispute(o)
           \/ \E o \in Orders, total \in 1..2 : Refund(o, total)
           \/ \E p \in OnSale, amount \in Prices : ChangePrice(p, amount)
           \/ Tick
    PROVE  IInv'
<1> USE StatusFacts
<1>1. UNCHANGED <<users, subs, coupons, txn, crashes, history>>
  BY DEF Pay, AutoCapture, Dispute, Refund, ChangePrice, Tick
<1>2. gateway' \in [Orders -> GatewayOrder]
  <2>1. gateway \in [Orders -> GatewayOrder] BY DEF IInv, TypeOK
  <2>2. ASSUME NEW o \in Orders
        PROVE  /\ [gateway[o] EXCEPT !.pay = "authorized"] \in GatewayOrder
               /\ [gateway[o] EXCEPT !.pay = "captured"] \in GatewayOrder
               /\ [gateway[o] EXCEPT !.disputed = TRUE] \in GatewayOrder
               /\ \A n \in 1..2 : [gateway[o] EXCEPT !.refunded = n] \in GatewayOrder
    <3>1. gateway[o] \in GatewayOrder BY <2>1
    <3>2. [gateway[o] EXCEPT !.disputed = TRUE] \in GatewayOrder
      BY <3>1, Zenon DEF GatewayOrder
    <3>3. \A p \in {"none", "open", "authorized", "captured"} :
             [gateway[o] EXCEPT !.pay = p] \in GatewayOrder
      BY <3>1, Zenon DEF GatewayOrder
    <3>4. \A n \in 0..2 : [gateway[o] EXCEPT !.refunded = n] \in GatewayOrder
      BY <3>1, Zenon DEF GatewayOrder
    <3>5. \A n \in 1..2 : n \in 0..2 OBVIOUS
    <3>6. QED BY <3>2, <3>3, <3>4, <3>5, Zenon
  <2>3. CASE \E o \in Orders : Pay(o)
    <3>1. PICK o \in Orders : gateway' = [gateway EXCEPT ![o].pay = "authorized"]
      BY <2>3 DEF Pay
    <3>2. QED BY <2>1, <2>2, <3>1
  <2>4. CASE \E o \in Orders : AutoCapture(o)
    <3>1. PICK o \in Orders : gateway' = [gateway EXCEPT ![o].pay = "captured"]
      BY <2>4 DEF AutoCapture
    <3>2. QED BY <2>1, <2>2, <3>1
  <2>5. CASE \E o \in Orders : Dispute(o)
    <3>1. PICK o \in Orders : gateway' = [gateway EXCEPT ![o].disputed = TRUE]
      BY <2>5 DEF Dispute
    <3>2. QED BY <2>1, <2>2, <3>1
  <2>6. CASE \E o \in Orders, total \in 1..2 : Refund(o, total)
    <3>1. PICK o \in Orders, total \in 1..2 :
             gateway' = [gateway EXCEPT ![o].refunded = total]
      BY <2>6 DEF Refund
    <3>2. QED BY <2>1, <2>2, <3>1
  <2>7. QED BY <2>1, <2>3, <2>4, <2>5, <2>6 DEF ChangePrice, Tick
<1>3. now' \in Nat /\ now' >= now
  BY DEF Pay, AutoCapture, Dispute, Refund, ChangePrice, Tick, IInv, TypeOK
<1>4. price' \in [OnSale -> Prices]
  BY DEF Pay, AutoCapture, Dispute, Refund, ChangePrice, Tick, IInv, TypeOK
<1>5. \A o \in Orders : /\ gateway[o].pay = "captured" => gateway'[o].pay = "captured"
                        /\ gateway[o].pay = "none" => gateway'[o].pay = "none"
  BY DEF Pay, AutoCapture, Dispute, Refund, ChangePrice, Tick, IInv, TypeOK, GatewayOrder
<1>6. TypeOK' BY <1>1, <1>2, <1>3, <1>4 DEF IInv, TypeOK, history
<1>7. (RowsSound /\ UnstoredUnpaid /\ UnusedCoupons /\ ExactlyOnce)'
  BY <1>1, <1>5 DEF IInv, RowsSound, UnstoredUnpaid, UnusedCoupons, ExactlyOnce, history
<1>8. \A v \in Workers : txn'[v] = txn[v] /\ Undisturbed(txn[v])
  BY <1>1, <1>3, <1>5 DEF Undisturbed
<1>9. QED BY <1>6, <1>7, <1>8, EndOrKeepInv

LEMMA RestartInv ==
    ASSUME IInv, Restart
    PROVE  IInv'
<1> USE StatusFacts
<1>1. /\ \A v \in Workers : txn'[v] = NoTxn
      /\ txn' \in [Workers -> Txn] /\ crashes' \in Nat
      /\ UNCHANGED <<now, price, coupons, gateway, history>>
  BY NoTxnType DEF Restart, IInv, TypeOK
<1>2. /\ subs' \in [SubIds -> SubRow]
      /\ \A s \in SubIds :
            /\ subs'[s].user = subs[s].user /\ subs'[s].plan = subs[s].plan
            /\ \/ subs'[s].status = subs[s].status
               \/ subs[s].status \in Held /\ subs'[s].status = "expired"
  <2> DEFINE g == [s \in SubIds |-> IF Stale(s) THEN [subs[s] EXCEPT !.status = "expired"]
                                    ELSE subs[s]]
  <2>1. ASSUME NEW s \in SubIds
        PROVE  /\ g[s] \in SubRow /\ g[s].user = subs[s].user /\ g[s].plan = subs[s].plan
               /\ \/ g[s].status = subs[s].status
                  \/ subs[s].status \in Held /\ g[s].status = "expired"
    <3>1. subs[s] \in SubRow BY DEF IInv, TypeOK
    <3>2. QED BY <3>1 DEF SubRow, Stale
  <2>2. g = [s \in SubIds |-> g[s]] OBVIOUS
  <2>3. subs' = g BY DEF Restart, Sweep
  <2> HIDE DEF g
  <2>4. QED BY <2>1, <2>2, <2>3
<1>3. users' \in [Users -> UserRow]
  <2> DEFINE g == [u \in Users |-> IF Lapsed(u)
                     THEN [users[u] EXCEPT !.plan = "free", !.planExp = Null] ELSE users[u]]
  <2>1. ASSUME NEW u \in Users PROVE g[u] \in UserRow
    <3>1. users[u] \in UserRow BY DEF IInv, TypeOK
    <3>2. QED BY <3>1 DEF UserRow, Day
  <2>2. g = [u \in Users |-> g[u]] OBVIOUS
  <2>3. users' = g BY DEF Restart, Sweep
  <2> HIDE DEF g
  <2>4. QED BY <2>1, <2>2, <2>3
<1>4. TypeOK' BY <1>1, <1>2, <1>3 DEF IInv, TypeOK, history
<1>5. (RowsSound /\ UnstoredUnpaid /\ UnusedCoupons /\ ExactlyOnce)'
  BY <1>1, <1>2 DEF IInv, RowsSound, UnstoredUnpaid, UnusedCoupons, ExactlyOnce, history,
     Claimable, Held
<1>6. QED BY <1>1, <1>4, <1>5, EndOrKeepInv

----------------------------------------------------------------------------
(* The invariant *)

LEMMA InitInv ==
    ASSUME Init
    PROVE  IInv
<1> USE StatusFacts
<1>1. PICK owner \in [LegacyOrders -> Users], plan \in [LegacyOrders -> OnSale],
           st \in [LegacyOrders -> Claimable] :
        /\ subs = [s \in SubIds |->
                     IF s \in LegacyOrders
                     THEN [NewOrder(owner[s], plan[s], Null) EXCEPT !.status = st[s]]
                     ELSE NoSub]
        /\ gateway = [o \in Orders |-> IF o \in LegacyOrders
                                       THEN Unpaid(price[plan[o]]) ELSE NoPayment]
  BY DEF Init
<1>2. /\ now = 0 /\ crashes = 0 /\ applied = {} /\ price \in [OnSale -> Prices]
      /\ coupons = [c \in Coupons |-> "unused"] /\ txn = [w \in Workers |-> NoTxn]
      /\ activations = [s \in SubIds |-> 0]
      /\ users \in [Users -> [plan : {"free"}, planExp : {Null}, trialExp : FirstTrials]]
  BY DEF Init
<1>3. users \in [Users -> UserRow]
  BY <1>2, BillingAssumption DEF UserRow, Day
<1>4. NoSub \in SubRow /\ NoSub.status = "none" /\ NoSub.user = Null
  BY DEF NoSub, SubRow, Day
<1>5. \A s \in SubIds :
         IF s \in LegacyOrders
         THEN /\ s \in Orders /\ subs[s] \in SubRow /\ subs[s].status \in Claimable
              /\ subs[s].user \in Users /\ subs[s].plan \in OnSale
         ELSE subs[s] = NoSub
  <2>1. ASSUME NEW s \in LegacyOrders
        PROVE  /\ s \in Orders /\ s \in SubIds /\ subs[s] \in SubRow
               /\ subs[s].status \in Claimable
               /\ subs[s].user \in Users /\ subs[s].plan \in OnSale
    <3>1. PICK u \in Users, p \in OnSale, x \in Claimable :
             u = owner[s] /\ p = plan[s] /\ x = st[s]
      BY <2>1
    <3>2. NewOrder(u, p, Null) \in SubRow /\ NewOrder(u, p, Null).user = u
          /\ NewOrder(u, p, Null).plan = p
      BY NewOrderType
    <3>3. s \in Orders /\ s \in SubIds BY BillingAssumption
    <3>4. subs[s] = [NewOrder(u, p, Null) EXCEPT !.status = x] BY <1>1, <3>1, <3>3
    <3>5. QED BY <3>2, <3>3, <3>4 DEF SubRow, Claimable
  <2>2. QED BY <1>1, <2>1
<1>6. gateway \in [Orders -> GatewayOrder]
  <2>1. ASSUME NEW o \in LegacyOrders PROVE Unpaid(price[plan[o]]) \in GatewayOrder
    BY <1>2, <2>1, UnpaidType
  <2>2. NoPayment \in GatewayOrder BY DEF NoPayment, GatewayOrder
  <2>3. QED BY <1>1, <2>1, <2>2
<1>7. TypeOK
  <2>1. subs \in [SubIds -> SubRow] BY <1>1, <1>4, <1>5
  <2>2. QED BY <1>2, <1>3, <1>6, <2>1, NoTxnType DEF TypeOK
<1>8. RowsSound /\ UnusedCoupons
  BY <1>2, <1>4, <1>5, BillingAssumption DEF RowsSound, UnusedCoupons, Claimable
<1>9. UnstoredUnpaid
  <2>1. \A o \in Orders \ LegacyOrders : gateway[o].pay = "none" BY <1>1 DEF NoPayment
  <2>2. QED BY <1>5, <2>1 DEF UnstoredUnpaid, Claimable
<1>10. \A w \in Workers : TxnInv(txn[w]) BY <1>2, NoTxnInv
<1>11. LocksExclusive /\ NewIdsExclusive
  BY <1>2 DEF LocksExclusive, NewIdsExclusive, NoTxn
<1>12. ExactlyOnce BY <1>2 DEF ExactlyOnce
<1>13. QED BY <1>7, <1>8, <1>9, <1>10, <1>11, <1>12 DEF IInv

LEMMA StutterInv ==
    ASSUME IInv, UNCHANGED vars
    PROVE  IInv'
<1>1. UNCHANGED <<now, price, users, subs, coupons, gateway, txn, crashes, history>>
  BY DEF vars, history
<1>2. (TypeOK /\ RowsSound /\ UnstoredUnpaid /\ UnusedCoupons /\ ExactlyOnce)'
  BY <1>1 DEF IInv, TypeOK, RowsSound, UnstoredUnpaid, UnusedCoupons, ExactlyOnce, history
<1>3. \A v \in Workers : txn'[v] = txn[v] /\ Undisturbed(txn[v])
  BY <1>1 DEF Undisturbed, IInv, TypeOK
<1>4. QED BY <1>2, <1>3, EndOrKeepInv

(* Every step keeps the invariant. *)
LEMMA NextInv ==
    ASSUME IInv, [Next]_vars
    PROVE  IInv'
<1>1. ASSUME NEW w \in Workers, Request(w) PROVE IInv'
  <2>1. CASE \E o \in Orders, u \in Users, p \in OnSale : BeginOrder(w, o, u, p)
    BY <2>1, BeginOrderInv
  <2>2. CASE \E o \in Orders : CapturedWebhook(w, o) \/ Settle(w, o)
    BY <2>2, CapturedWebhookInv, SettleInv
  <2>3. CASE \E o \in Orders, kind \in Reversals : BeginRevoke(w, o, kind)
    BY <2>3, BeginRevokeInv, BillingAssumption
  <2>4. CASE \E g \in Grants \cup {Null}, u \in Users, p \in AdminPlans, d \in GrantDays,
                allow \in BOOLEAN : BeginGrant(w, g, u, p, d, allow)
    BY <2>4, BeginGrantInv
  <2>5. CASE \E c \in Coupons : BeginRedeem(w, c)
    BY <2>5, BeginRedeemInv
  <2>6. QED BY <1>1, <2>1, <2>2, <2>3, <2>4, <2>5 DEF Request
<1>2. ASSUME NEW w \in Workers, Continue(w) PROVE IInv'
  BY <1>2, InsertOrderInv, ClaimStepInv, LockUserInv, CommitActivationInv, ReadBestInv,
     CommitRevokeInv, CommitGrantInv, CommitRedeemInv DEF Continue
<1>3. ASSUME Environment PROVE IInv'
  <2>1. CASE \E o \in Orders : RecordPartialRefund(o) BY <2>1, RecordPartialRefundInv
  <2>2. CASE \E u \in Users : Cancel(u) BY <2>2, CancelInv
  <2>3. QED BY <1>3, <2>1, <2>2, WorldInv DEF Environment
<1>4. ASSUME Failure PROVE IInv'
  BY <1>4, RestartInv, FailureInv DEF Failure
<1>5. QED BY <1>1, <1>2, <1>3, <1>4, StutterInv DEF Next

(* Locks, claims and what a request computed stay in order through every    *)
(* interleaving.                                                            *)
THEOREM Inductive == Spec => []IInv
<1>1. Init => IInv BY InitInv
<1>2. IInv /\ [Next]_vars => IInv' BY NextInv
<1>3. QED BY <1>1, <1>2, PTL DEF Spec

(* Every reachable state is well typed, whatever the users, orders, coupons *)
(* and concurrent requests are.                                             *)
THEOREM TypeCorrect == Spec => []TypeOK
<1>1. IInv => TypeOK BY DEF IInv
<1>2. QED BY <1>1, Inductive, PTL

(* However many requests, webhooks, retries and restarts race, no order is  *)
(* activated and no coupon redeemed twice (activate_subscription,           *)
(* redeem_coupon).                                                          *)
THEOREM AtMostOnce == Spec => []ExactlyOnce
<1>1. IInv => ExactlyOnce BY DEF IInv
<1>2. QED BY <1>1, Inductive, PTL

----------------------------------------------------------------------------
(* What a step does to the tables: most steps only move a request, the     *)
(* others are listed here with the rows they write.                        *)

Writes ==
    \/ \E w \in Workers : \/ InsertOrder(w) \/ CommitActivation(w) \/ CommitRevoke(w)
                          \/ CommitGrant(w) \/ CommitRedeem(w)
    \/ \E o \in Orders : RecordPartialRefund(o)
    \/ \E u \in Users : Cancel(u)
    \/ Restart

LEMMA StepCases ==
    ASSUME Next
    PROVE  Writes \/ UNCHANGED <<users, subs, history>>
<1>1. ASSUME NEW w \in Workers, Request(w) PROVE UNCHANGED <<users, subs, history>>
  BY <1>1, Zenon DEF Request, BeginOrder, CapturedWebhook, Settle, BeginRevoke, BeginGrant, BeginRedeem
<1>2. ASSUME NEW w \in Workers, Continue(w)
      PROVE  Writes \/ UNCHANGED <<users, subs, history>>
  BY <1>2, Zenon DEF Continue, Claim, LockUser, ReadBest, Writes
<1>3. ASSUME Environment PROVE Writes \/ UNCHANGED <<users, subs, history>>
  BY <1>3, Zenon DEF Environment, Pay, AutoCapture, Dispute, Refund, ChangePrice, Tick, Writes
<1>4. ASSUME Failure PROVE Writes \/ UNCHANGED <<users, subs, history>>
  BY <1>4, Zenon DEF Failure, Abort, DeadlockVictim, Writes
<1>5. QED BY <1>1, <1>2, <1>3, <1>4 DEF Next

LEMMA InsertWrites ==
    ASSUME IInv, NEW w \in Workers, InsertOrder(w)
    PROVE  LET t == txn[w] IN
           /\ t.sub \in Orders /\ t.sub \in SubIds /\ subs[t.sub].status = "none"
           /\ t.user \in Users /\ t.plan \in OnSale
           /\ subs' = [subs EXCEPT ![t.sub] = NewOrder(t.user, t.plan, t.amount)]
           /\ gateway' = [gateway EXCEPT ![t.sub] = Unpaid(t.amount)]
           /\ gateway[t.sub].pay = "none"
           /\ UNCHANGED <<now, users, history>>
BY StatusFacts DEF InsertOrder, IInv, TxnInv, InsertInv, UnstoredUnpaid

(* What CommitActivation writes to the row of the order and of its user. *)
LEMMA ActivationWrites ==
    ASSUME IInv, NEW w \in Workers, CommitActivation(w)
    PROVE  LET t == txn[w] IN
           /\ t.sub \in Orders /\ t.sub \in SubIds /\ subs[t.sub].status \in Claimable
           /\ t.user \in Users /\ t.plan \in PaidPlans /\ t.at \in Nat /\ t.at <= now
           /\ subs[t.sub].user = t.user /\ subs[t.sub].plan = t.plan
           /\ gateway[t.sub].pay = "captured" /\ activations[t.sub] = 0
           /\ t.live = LivePlan(users[t.user], t.at)
           /\ t.exp = StackedExpiry(users[t.user], t.plan, t.at)
           /\ subs' = [subs EXCEPT ![t.sub].status = "active", ![t.sub].expires = t.exp]
           /\ activations' = [activations EXCEPT ![t.sub] = 1]
           /\ \/ /\ PLAN_RANK[t.plan] >= PLAN_RANK[t.live]
                 /\ users' = [users EXCEPT ![t.user].plan = t.plan, ![t.user].planExp = t.exp,
                                          ![t.user].trialExp = EndTrial(@, t.at)]
                 /\ applied' = applied \cup {t.sub}
              \/ /\ PLAN_RANK[t.plan] < PLAN_RANK[t.live]
                 /\ UNCHANGED <<users, applied>>
           /\ txn' = [txn EXCEPT ![w] = NoTxn]
           /\ UNCHANGED <<now, gateway, coupons>>
<1> USE StatusFacts
<1>1. /\ txn[w] \in Txn /\ ClaimInv(txn[w]) /\ ClaimedInv(txn[w]) /\ ActivateInv(txn[w])
      /\ txn[w].pc = "activate"
  BY DEF CommitActivation, IInv, TypeOK, TxnInv
<1>2. /\ txn[w].sub \in Orders /\ txn[w].sub \in SubIds /\ subs[txn[w].sub].status \in Claimable
      /\ txn[w].user \in Users /\ txn[w].plan \in PaidPlans
      /\ txn[w].at \in Nat /\ txn[w].at <= now
      /\ subs[txn[w].sub].user = txn[w].user /\ subs[txn[w].sub].plan = txn[w].plan
      /\ gateway[txn[w].sub].pay = "captured" /\ activations[txn[w].sub] = 0
      /\ txn[w].live = LivePlan(users[txn[w].user], txn[w].at)
      /\ txn[w].exp = StackedExpiry(users[txn[w].user], txn[w].plan, txn[w].at)
  BY <1>1 DEF ClaimInv, ClaimedInv, ActivateInv, Txn, IInv, RowsSound
<1>3. subs' = [subs EXCEPT ![txn[w].sub].status = "active", ![txn[w].sub].expires = txn[w].exp]
  BY DEF CommitActivation
<1>4. activations' = [activations EXCEPT ![txn[w].sub] = 1]
  BY <1>2 DEF CommitActivation, IInv, TypeOK
<1>5. UNCHANGED <<now, gateway, coupons>> /\ txn' = [txn EXCEPT ![w] = NoTxn]
  BY DEF CommitActivation, Done
<1>6. QED BY <1>2, <1>3, <1>4, <1>5, Zenon DEF CommitActivation

LEMMA RevokeWrites ==
    ASSUME IInv, NEW w \in Workers, CommitRevoke(w)
    PROVE  LET t == txn[w] IN
           /\ t.pc = "revoke" /\ t.sub \in Orders /\ t.sub \in SubIds
           /\ subs[t.sub].status \in Claimable \cup Held
           /\ t.user \in Users /\ t.to \in {"refunded", "disputed"}
           /\ subs' = [subs EXCEPT ![t.sub].status = t.to,
                                   ![t.sub].refunded = IF t.to = "refunded" THEN 2 ELSE @]
           /\ users' = [users EXCEPT ![t.user].plan = t.plan, ![t.user].planExp = t.exp]
           /\ txn' = [txn EXCEPT ![w] = NoTxn]
           /\ UNCHANGED <<now, gateway, coupons, history>>
<1>1. txn[w].pc = "revoke" /\ RevokeInv(txn[w]) BY DEF CommitRevoke, IInv, TxnInv
<1>2. QED BY <1>1, StatusFacts, Zenon DEF CommitRevoke, RevokeInv, Done

(* What CommitGrant writes: the rows it ends, the row of the grant and the  *)
(* user.                                                                    *)
GrantRow(t) == [NoSub EXCEPT !.status = "active", !.user = t.user, !.plan = t.plan,
                             !.expires = t.exp]

LEMMA GrantWrites ==
    ASSUME IInv, NEW w \in Workers, CommitGrant(w)
    PROVE  LET t == txn[w] IN
           /\ t.pc = "grant" /\ t.user \in Users /\ t.at \in Nat
           /\ IF t.plan = "free" THEN t.sub = Null
              ELSE /\ t.plan \in PaidPlans /\ t.sub \in Grants /\ t.sub \in SubIds
                   /\ subs[t.sub].status = "none" /\ activations[t.sub] = 0
           /\ subs' = [s \in SubIds |->
                         IF s \in GrantVictims(t) THEN [subs[s] EXCEPT !.status = "revoked"]
                         ELSE IF s = t.sub THEN GrantRow(t) ELSE subs[s]]
           /\ users' = [users EXCEPT ![t.user].plan = t.plan, ![t.user].planExp = t.exp,
                                     ![t.user].trialExp = EndTrial(@, t.at)]
           /\ activations' = [s \in SubIds |-> activations[s] + IF s = t.sub THEN 1 ELSE 0]
           /\ applied' = applied \cup ({t.sub} \ {Null})
           /\ txn' = [txn EXCEPT ![w] = NoTxn]
           /\ UNCHANGED <<now, gateway, coupons>>
<1> USE StatusFacts
<1>1. /\ txn[w].pc = "grant" /\ GrantInv(txn[w]) /\ txn[w] \in Txn /\ RowsSound
  BY DEF CommitGrant, IInv, TxnInv, TypeOK
<1>2. /\ txn[w].user \in Users /\ txn[w].at \in Nat
      /\ IF txn[w].plan = "free" THEN txn[w].sub = Null
         ELSE /\ txn[w].plan \in PaidPlans /\ txn[w].sub \in Grants /\ txn[w].sub \in SubIds
              /\ subs[txn[w].sub].status = "none" /\ activations[txn[w].sub] = 0
  BY <1>1 DEF GrantInv, Txn, RowsSound
<1>3. QED BY <1>1, <1>2, Zenon DEF CommitGrant, Done, GrantRow

LEMMA RedeemWrites ==
    ASSUME IInv, NEW w \in Workers, CommitRedeem(w)
    PROVE  LET t == txn[w] IN
           /\ t.pc = "redeem" /\ t.user \in Users /\ t.at \in Nat /\ t.plan = "lifetime"
           /\ t.sub \in Coupons /\ t.sub \in SubIds
           /\ subs[t.sub].status = "none" /\ activations[t.sub] = 0
           /\ subs' = [subs EXCEPT ![t.sub] = [NoSub EXCEPT !.status = "active",
                                                  !.user = t.user, !.plan = t.plan]]
           /\ users' = [users EXCEPT ![t.user].plan = t.plan, ![t.user].planExp = Null,
                                     ![t.user].trialExp = EndTrial(@, t.at)]
           /\ activations' = [activations EXCEPT ![t.sub] = 1]
           /\ applied' = applied \cup {t.sub}
           /\ txn' = [txn EXCEPT ![w] = NoTxn]
           /\ UNCHANGED <<now, gateway>>
<1> USE StatusFacts
<1>1. /\ txn[w].pc = "redeem" /\ RedeemInv(txn[w]) /\ txn[w] \in Txn /\ RowsSound /\ UnusedCoupons
  BY DEF CommitRedeem, IInv, TxnInv, TypeOK
<1>2. /\ txn[w].user \in Users /\ txn[w].at \in Nat /\ txn[w].plan = "lifetime"
      /\ txn[w].sub \in Coupons /\ txn[w].sub \in SubIds
      /\ subs[txn[w].sub].status = "none" /\ activations[txn[w].sub] = 0
  BY <1>1 DEF RedeemInv, Txn, RowsSound, UnusedCoupons
<1>3. subs' = [subs EXCEPT ![txn[w].sub] = [NoSub EXCEPT !.status = "active",
                                  !.user = txn[w].user, !.plan = txn[w].plan]]
  BY <1>2 DEF CommitRedeem, IInv, TypeOK
<1>4. activations' = [activations EXCEPT ![txn[w].sub] = 1]
  BY <1>2 DEF CommitRedeem, IInv, TypeOK
<1>5. QED BY <1>1, <1>2, <1>3, <1>4, Zenon DEF CommitRedeem, Done

LEMMA CancelWrites ==
    ASSUME IInv, NEW u \in Users, Cancel(u), NEW s \in SubIds
    PROVE  /\ \/ subs'[s] = subs[s]
              \/ subs[s].status = "active" /\ subs'[s] = [subs[s] EXCEPT !.status = "cancelled"]
           /\ UNCHANGED <<now, users, gateway, txn, coupons, history>>
BY Zenon DEF Cancel, Cancellable

LEMMA PartialRefundWrites ==
    ASSUME IInv, NEW o \in Orders, RecordPartialRefund(o)
    PROVE  /\ o \in SubIds /\ gateway[o].refunded >= 1
           /\ subs' = [subs EXCEPT ![o].refunded = IF @ > 1 THEN @ ELSE 1]
           /\ UNCHANGED <<now, users, gateway, txn, coupons, history>>
BY StatusFacts DEF RecordPartialRefund, Greatest

LEMMA RestartWrites ==
    ASSUME IInv, Restart
    PROVE  /\ \A s \in SubIds :
                 IF Stale(s) THEN subs'[s] = [subs[s] EXCEPT !.status = "expired"]
                 ELSE subs'[s] = subs[s]
           /\ \A u \in Users :
                 IF Lapsed(u) THEN users'[u] = [users[u] EXCEPT !.plan = "free", !.planExp = Null]
                 ELSE users'[u] = users[u]
           /\ txn' = [w \in Workers |-> NoTxn]
           /\ UNCHANGED <<now, gateway, coupons, history>>
BY DEF Restart, Sweep

----------------------------------------------------------------------------
(* Billing implements OrderLifecycle. *)

(* The abstract step that a step of Billing maps to is read off from what  *)
(* it does to the status of each row and to the count of its activations.  *)
MovesRow(s) ==
    subs'[s].status # subs[s].status =>
        subs'[s].status \in Lifecycle!Successors[subs[s].status]

CountsRow(s) ==
    IF subs'[s].status = "active" /\ subs[s].status # "active"
    THEN /\ activations[s] = 0 /\ activations'[s] = 1
         /\ s \in Orders => gateway[s].pay = "captured" /\ subs[s].status # "none"
    ELSE activations'[s] = activations[s]

SameCaptured ==
    \A o \in Orders : gateway'[o].pay = "captured" <=> gateway[o].pay = "captured"

LEMMA SuccessorFacts ==
    /\ "pending" \in Lifecycle!Successors["none"] /\ "active" \in Lifecycle!Successors["none"]
    /\ \A st \in Claimable : /\ "active" \in Lifecycle!Successors[st]
                             /\ "refunded" \in Lifecycle!Successors[st]
                             /\ "disputed" \in Lifecycle!Successors[st]
    /\ "cancelled" \in Lifecycle!Successors["active"]
    /\ \A st \in Held, e \in {"expired", "refunded", "disputed", "revoked"} :
          e \in Lifecycle!Successors[st]
BY DEF Lifecycle!Successors, Lifecycle!Ends, Claimable, Held

LEMMA MapsToMove ==
    ASSUME TypeOK, TypeOK', SameCaptured, \A s \in SubIds : MovesRow(s) /\ CountsRow(s)
    PROVE  Lifecycle!Move
<1> USE DEF MovesRow, CountsRow, SameCaptured
<1> DEFINE st == [s \in SubIds |-> subs[s].status]
<1>1. \A s \in SubIds : st[s] = subs[s].status /\ st'[s] = subs'[s].status OBVIOUS
<1>2. \A s \in SubIds : Lifecycle!Activates(s) <=>
          subs'[s].status = "active" /\ subs[s].status # "active"
  BY DEF Lifecycle!Activates
<1>3. \A s \in SubIds : activations[s] \in Nat /\ activations'[s] \in Nat BY DEF TypeOK
<1>4. {s \in SubIds : activations'[s] > 0}
        = {s \in SubIds : activations[s] > 0} \cup {s \in SubIds : Lifecycle!Activates(s)}
  BY <1>2, <1>3
<1>5. {o \in Orders : gateway'[o].pay = "captured"} = {o \in Orders : gateway[o].pay = "captured"}
  OBVIOUS
<1>6. \A s \in SubIds : Lifecycle!Activates(s) =>
         /\ s \notin {x \in SubIds : activations[x] > 0}
         /\ s \in Orders => /\ s \in {o \in Orders : gateway[o].pay = "captured"}
                            /\ st[s] # "none"
  BY <1>2
<1>7. QED BY <1>1, <1>4, <1>5, <1>6 DEF Lifecycle!Move

LEMMA MapsToCapture ==
    ASSUME NEW o \in Orders, UNCHANGED <<subs, activations>>,
           \A x \in Orders : gateway'[x].pay = "captured" <=>
                                x = o \/ gateway[x].pay = "captured"
    PROVE  Lifecycle!Capture
<1>1. {x \in Orders : gateway'[x].pay = "captured"}
        = {x \in Orders : gateway[x].pay = "captured"} \cup {o}
  OBVIOUS
<1>2. QED BY <1>1 DEF Lifecycle!Capture

LEMMA MapsToStutter ==
    ASSUME UNCHANGED <<subs, activations>>,
           SameCaptured
    PROVE  UNCHANGED Lifecycle!vars
<1>1. {x \in Orders : gateway'[x].pay = "captured"} = {x \in Orders : gateway[x].pay = "captured"}
  BY DEF SameCaptured
<1>2. QED BY <1>1 DEF Lifecycle!vars

LEMMA InitMaps ==
    ASSUME Init
    PROVE  Lifecycle!Init
<1>1. \A s \in SubIds : subs[s].status \in {"none", "pending", "failed"}
  <2>3. PICK owner \in [LegacyOrders -> Users], plan \in [LegacyOrders -> OnSale],
             st \in [LegacyOrders -> Claimable] :
          subs = [s \in SubIds |->
                    IF s \in LegacyOrders
                    THEN [NewOrder(owner[s], plan[s], Null) EXCEPT !.status = st[s]]
                    ELSE NoSub]
    BY DEF Init
  <2>4. ASSUME NEW s \in LegacyOrders, s \in SubIds PROVE subs[s].status = st[s]
    BY <2>3, <2>4 DEF NewOrder, NoSub
  <2>5. ASSUME NEW s \in SubIds \ LegacyOrders PROVE subs[s].status = "none"
    BY <2>3, <2>5 DEF NoSub
  <2>6. \A s \in LegacyOrders : st[s] \in Claimable BY <2>3
  <2>7. QED BY <2>4, <2>5, <2>6 DEF Claimable
<1>2. \A o \in Orders : gateway[o].pay # "captured"
  BY DEF Init, Unpaid, NoPayment
<1>3. \A s \in SubIds : activations[s] = 0 BY DEF Init
<1>4. QED BY <1>1, <1>2, <1>3 DEF Lifecycle!Init

(* Payments are only ever captured, never taken back.                      *)
LEMMA GatewaySteps ==
    ASSUME IInv, Next
    PROVE  SameCaptured \/ \E o \in Orders : gateway' = [gateway EXCEPT ![o].pay = "captured"]
<1> DEFINE Takes == \E o \in Orders : gateway' = [gateway EXCEPT ![o].pay = "captured"]
<1>1. gateway \in [Orders -> GatewayOrder] BY DEF IInv, TypeOK
<1>2. ASSUME NEW w \in Workers, Request(w) PROVE SameCaptured \/ Takes
  <2>1. gateway' = gateway \/ Takes
    BY <1>2, Zenon DEF Request, BeginOrder, CapturedWebhook, Settle, BeginRevoke, BeginGrant,
       BeginRedeem
  <2>2. QED BY <2>1 DEF SameCaptured
<1>3. ASSUME NEW w \in Workers, Continue(w) PROVE SameCaptured
  <2>1. CASE InsertOrder(w)
    <3>1. /\ gateway' = [gateway EXCEPT ![txn[w].sub] = Unpaid(txn[w].amount)]
          /\ gateway[txn[w].sub].pay = "none"
      BY <2>1, InsertWrites
    <3>2. QED BY <1>1, <3>1 DEF Unpaid, SameCaptured
  <2>2. CASE ~InsertOrder(w)
    <3>1. gateway' = gateway
      BY <1>3, <2>2, Zenon DEF Continue, Claim, LockUser, CommitActivation, ReadBest, CommitRevoke,
         CommitGrant, CommitRedeem
    <3>2. QED BY <3>1 DEF SameCaptured
  <2>3. QED BY <2>1, <2>2
<1>4. ASSUME Environment PROVE SameCaptured \/ Takes
  <2>1. ASSUME NEW o \in Orders, Pay(o) PROVE SameCaptured BY <1>1, <2>1 DEF Pay, GatewayOrder, SameCaptured
  <2>2. ASSUME NEW o \in Orders, AutoCapture(o) PROVE Takes BY <2>2 DEF AutoCapture
  <2>3. ASSUME NEW o \in Orders, Dispute(o) PROVE SameCaptured BY <1>1, <2>3 DEF Dispute, GatewayOrder, SameCaptured
  <2>4. ASSUME NEW o \in Orders, NEW total \in 1..2, Refund(o, total) PROVE SameCaptured
    BY <1>1, <2>4 DEF Refund, GatewayOrder, SameCaptured
  <2>5. gateway' = gateway => SameCaptured BY DEF SameCaptured
  <2>6. QED
    BY <1>4, <2>1, <2>2, <2>3, <2>4, <2>5, Zenon
    DEF Environment, RecordPartialRefund, ChangePrice, Cancel, Tick
<1>5. ASSUME Failure PROVE SameCaptured
  <2>1. gateway' = gateway BY <1>5, Zenon DEF Failure, Restart, Abort, DeadlockVictim
  <2>2. QED BY <2>1 DEF SameCaptured
<1>6. QED BY <1>2, <1>3, <1>4, <1>5 DEF Next

(* Every step of Billing is a step of the life cycle, or changes nothing   *)
(* the life cycle speaks of.                                               *)
LEMMA StepMaps ==
    ASSUME IInv, IInv', Next
    PROVE  Lifecycle!Next \/ UNCHANGED Lifecycle!vars
<1> USE StatusFacts
<1>1. TypeOK /\ TypeOK' BY DEF IInv
<1>2. ASSUME NEW w \in Workers, InsertOrder(w) PROVE Lifecycle!Move
  <2> DEFINE o == txn[w].sub
  <2>1. /\ o \in SubIds /\ o \in Orders /\ subs[o].status = "none" /\ subs'[o].status = "pending"
        /\ \A s \in SubIds \ {o} : subs'[s] = subs[s]
    <3>1. /\ o \in SubIds /\ o \in Orders /\ subs[o].status = "none"
          /\ subs' = [subs EXCEPT ![o] = NewOrder(txn[w].user, txn[w].plan, txn[w].amount)]
      BY <1>2, InsertWrites
    <3>2. QED BY <1>1, <3>1 DEF NewOrder, NoSub, TypeOK
  <2>2. SameCaptured
    <3>1. /\ gateway' = [gateway EXCEPT ![o] = Unpaid(txn[w].amount)]
          /\ gateway[o].pay = "none"
      BY <1>2, InsertWrites
    <3>2. QED BY <1>1, <3>1 DEF Unpaid, SameCaptured, TypeOK
  <2>3. activations' = activations BY <1>2, InsertWrites DEF history
  <2> HIDE DEF o
  <2>4. \A s \in SubIds : MovesRow(s) /\ CountsRow(s)
    BY <2>1, <2>3, SuccessorFacts DEF MovesRow, CountsRow
  <2>5. QED BY <1>1, <2>2, <2>4, MapsToMove
<1>3. ASSUME NEW w \in Workers, CommitActivation(w) PROVE Lifecycle!Move
  <2> DEFINE o == txn[w].sub
  <2>1. /\ o \in SubIds /\ o \in Orders /\ subs[o].status \in Claimable
        /\ gateway[o].pay = "captured" /\ activations[o] = 0
        /\ subs'[o].status = "active" /\ activations'[o] = 1
        /\ \A s \in SubIds \ {o} : subs'[s] = subs[s] /\ activations'[s] = activations[s]
        /\ gateway' = gateway
    <3>1. /\ o \in SubIds /\ o \in Orders /\ subs[o].status \in Claimable
          /\ gateway[o].pay = "captured" /\ activations[o] = 0
          /\ subs' = [subs EXCEPT ![o].status = "active", ![o].expires = txn[w].exp]
          /\ activations' = [activations EXCEPT ![o] = 1]
          /\ gateway' = gateway
      BY <1>3, ActivationWrites
    <3>2. QED BY <1>1, <3>1 DEF TypeOK, SubRow
  <2> HIDE DEF o
  <2>2. \A s \in SubIds : MovesRow(s) /\ CountsRow(s)
    BY <2>1, SuccessorFacts DEF MovesRow, CountsRow, Claimable, Held
  <2>3. SameCaptured BY <2>1 DEF SameCaptured
  <2>4. QED BY <1>1, <2>2, <2>3, MapsToMove
<1>4. ASSUME NEW w \in Workers, CommitRevoke(w) PROVE Lifecycle!Move
  <2> DEFINE o == txn[w].sub
  <2>1. /\ o \in SubIds /\ subs[o].status \in Claimable \cup Held
        /\ subs'[o].status \in {"refunded", "disputed"}
        /\ \A s \in SubIds \ {o} : subs'[s] = subs[s]
        /\ UNCHANGED <<gateway, activations>>
    <3>1. /\ o \in SubIds /\ subs[o].status \in Claimable \cup Held
          /\ txn[w].to \in {"refunded", "disputed"}
          /\ subs' = [subs EXCEPT ![o].status = txn[w].to,
                                  ![o].refunded = IF txn[w].to = "refunded" THEN 2 ELSE @]
          /\ UNCHANGED <<gateway, history>>
      BY <1>4, RevokeWrites
    <3>2. QED BY <1>1, <3>1 DEF TypeOK, SubRow, history
  <2> HIDE DEF o
  <2>2. \A s \in SubIds : MovesRow(s) /\ CountsRow(s)
    BY <2>1, SuccessorFacts DEF MovesRow, CountsRow, Claimable, Held
  <2>3. SameCaptured BY <2>1 DEF SameCaptured
  <2>4. QED BY <1>1, <2>2, <2>3, MapsToMove
<1>5. ASSUME NEW w \in Workers, CommitGrant(w) PROVE Lifecycle!Move
  <2> DEFINE t == txn[w]
  <2>1. /\ t.sub \in SubIds => /\ t.sub \in Grants /\ subs[t.sub].status = "none"
                               /\ activations[t.sub] = 0
        /\ subs' = [s \in SubIds |->
                      IF s \in GrantVictims(t) THEN [subs[s] EXCEPT !.status = "revoked"]
                      ELSE IF s = t.sub THEN GrantRow(t) ELSE subs[s]]
        /\ activations' = [s \in SubIds |-> activations[s] + IF s = t.sub THEN 1 ELSE 0]
        /\ gateway' = gateway
    BY <1>5, GrantWrites
  <2>2. GrantRow(t).status = "active" BY DEF GrantRow, NoSub
  <2>3. \A s \in GrantVictims(t) : s \in SubIds /\ subs[s].status \in Held BY DEF GrantVictims
  <2>4. \A s \in SubIds : subs[s] \in SubRow /\ activations[s] \in Nat BY <1>1 DEF TypeOK
  <2>5. t.sub \in SubIds => t.sub \notin Orders BY <2>1, BillingAssumption
  <2> HIDE DEF t
  <2>6. ASSUME NEW s \in SubIds PROVE MovesRow(s) /\ CountsRow(s)
    <3>1. CASE s \in GrantVictims(t)
      <4>1. s # t.sub /\ subs[s].status \in Held BY <2>1, <2>3, <3>1 DEF Held
      <4>2. subs'[s].status = "revoked" BY <2>1, <2>4, <3>1 DEF SubRow
      <4>3. activations'[s] = activations[s] BY <2>1, <2>4, <4>1
      <4>4. QED BY <4>1, <4>2, <4>3, SuccessorFacts DEF MovesRow, CountsRow
    <3>2. CASE s = t.sub /\ s \notin GrantVictims(t)
      <4>1. subs'[s].status = "active" BY <2>1, <2>2, <3>2
      <4>2. activations[s] = 0 /\ activations'[s] = 1 BY <2>1, <3>2
      <4>3. QED BY <2>1, <2>5, <3>2, <4>1, <4>2, SuccessorFacts DEF MovesRow, CountsRow
    <3>3. CASE s # t.sub /\ s \notin GrantVictims(t)
      <4>1. subs'[s] = subs[s] /\ activations'[s] = activations[s] BY <2>1, <2>4, <3>3
      <4>2. QED BY <4>1 DEF MovesRow, CountsRow
    <3>4. QED BY <3>1, <3>2, <3>3
  <2>7. SameCaptured BY <2>1 DEF SameCaptured
  <2>8. QED BY <1>1, <2>6, <2>7, MapsToMove
<1>6. ASSUME NEW w \in Workers, CommitRedeem(w) PROVE Lifecycle!Move
  <2> DEFINE c == txn[w].sub
  <2>1. /\ c \in SubIds /\ c \notin Orders /\ subs[c].status = "none" /\ activations[c] = 0
        /\ subs'[c].status = "active" /\ activations'[c] = 1
        /\ \A s \in SubIds \ {c} : subs'[s] = subs[s] /\ activations'[s] = activations[s]
        /\ gateway' = gateway
    <3>1. /\ c \in SubIds /\ c \in Coupons /\ subs[c].status = "none" /\ activations[c] = 0
          /\ subs' = [subs EXCEPT ![c] = [NoSub EXCEPT !.status = "active",
                                             !.user = txn[w].user, !.plan = txn[w].plan]]
          /\ activations' = [activations EXCEPT ![c] = 1]
          /\ gateway' = gateway
      BY <1>6, RedeemWrites
    <3>2. c \notin Orders BY <3>1, BillingAssumption
    <3>3. QED BY <1>1, <3>1, <3>2 DEF NoSub, TypeOK
  <2> HIDE DEF c
  <2>2. \A s \in SubIds : MovesRow(s) /\ CountsRow(s)
    BY <2>1, SuccessorFacts DEF MovesRow, CountsRow, Claimable, Held
  <2>3. SameCaptured BY <2>1 DEF SameCaptured
  <2>4. QED BY <1>1, <2>2, <2>3, MapsToMove
<1>7. ASSUME NEW o \in Orders, RecordPartialRefund(o) PROVE UNCHANGED Lifecycle!vars
  <2>1. \A s \in SubIds : subs'[s].status = subs[s].status
    BY <1>1, <1>7, PartialRefundWrites DEF TypeOK, SubRow
  <2>2. UNCHANGED <<gateway, activations>> BY <1>7, PartialRefundWrites DEF history
  <2>3. QED BY <2>1, <2>2 DEF Lifecycle!vars
<1>8. ASSUME NEW u \in Users, Cancel(u) PROVE Lifecycle!Move
  <2>1. \A s \in SubIds : \/ subs'[s].status = subs[s].status
                          \/ subs[s].status = "active" /\ subs'[s].status = "cancelled"
    BY <1>1, <1>8, CancelWrites DEF TypeOK, SubRow
  <2>2. UNCHANGED <<gateway, activations>> BY <1>8 DEF Cancel, history
  <2>3. \A s \in SubIds : MovesRow(s) /\ CountsRow(s)
    BY <2>1, <2>2, SuccessorFacts DEF MovesRow, CountsRow, Held
  <2>4. SameCaptured BY <2>1, <2>2 DEF SameCaptured
  <2>5. QED BY <1>1, <2>3, <2>4, MapsToMove
<1>9. ASSUME Restart PROVE Lifecycle!Move
  <2>1. \A s \in SubIds : \/ subs'[s].status = subs[s].status
                          \/ subs[s].status \in Held /\ subs'[s].status = "expired"
    BY <1>1, <1>9, RestartWrites DEF TypeOK, SubRow, Stale
  <2>2. UNCHANGED <<gateway, activations>> BY <1>9, RestartWrites DEF history
  <2>3. \A s \in SubIds : MovesRow(s) /\ CountsRow(s)
    BY <2>1, <2>2, SuccessorFacts DEF MovesRow, CountsRow, Held
  <2>4. SameCaptured BY <2>1, <2>2 DEF SameCaptured
  <2>5. QED BY <1>1, <2>3, <2>4, MapsToMove
<1>10. CASE UNCHANGED <<users, subs, history>>
  <2>1. UNCHANGED <<subs, activations>> BY <1>10 DEF history
  <2>2. ASSUME NEW o \in Orders, gateway' = [gateway EXCEPT ![o].pay = "captured"]
        PROVE  Lifecycle!Capture
    <3>1. \A x \in Orders : gateway'[x].pay = "captured" <=>
                               x = o \/ gateway[x].pay = "captured"
      BY <1>1, <2>2 DEF TypeOK, GatewayOrder
    <3>2. QED BY <2>1, <3>1, MapsToCapture
  <2>3. CASE SameCaptured BY <2>1, <2>3, MapsToStutter
  <2>4. SameCaptured \/ \E o \in Orders : gateway' = [gateway EXCEPT ![o].pay = "captured"]
    BY <1>10, GatewaySteps
  <2>5. QED BY <2>2, <2>3, <2>4 DEF Lifecycle!Next
<1>11. QED
  BY <1>2, <1>3, <1>4, <1>5, <1>6, <1>7, <1>8, <1>9, <1>10, StepCases
  DEF Writes, Lifecycle!Next

(* Whatever handlers, webhooks, retries and restarts race, subscriptions    *)
(* only move along their life cycle, a row becomes a plan once, and an order*)
(* only after its payment was captured (activate_subscription,              *)
(* revoke_subscription).                                                    *)
THEOREM KeepsLifecycle == Spec => ImplementsLifecycle
<1>1. Init => Lifecycle!Init BY InitMaps
<1>2. IInv /\ IInv' /\ [Next]_vars => [Lifecycle!Next]_(Lifecycle!vars)
  <2>1. ASSUME IInv, IInv', Next PROVE [Lifecycle!Next]_(Lifecycle!vars)
    BY <2>1, StepMaps
  <2>2. ASSUME UNCHANGED vars PROVE UNCHANGED Lifecycle!vars
    BY <2>2 DEF vars, Lifecycle!vars
  <2>3. QED BY <2>1, <2>2
<1>3. QED BY <1>1, <1>2, Inductive, PTL DEF Spec, ImplementsLifecycle, Lifecycle!Spec

----------------------------------------------------------------------------
(* RowsInv: blank rows, refunds of paid orders, trials that are over, ends *)
(* of timed plans.                                                         *)

(* What a step does to the request of worker v. *)
Settled(v) ==
    /\ txn'[v].pc \notin {"activate", "readBest", "revoke", "grant"}
    /\ txn'[v].at \in {0, now, txn[v].at}

Prepares(v) ==
    \/ LockUser(v) \/ ReadBest(v)
    \/ \E o \in Orders, kind \in Reversals : BeginRevoke(v, o, kind)
    \/ \E g \in Grants \cup {Null}, u \in Users, p \in AdminPlans, d \in GrantDays,
          allow \in BOOLEAN : BeginGrant(v, g, u, p, d, allow)

LEMMA TxnSteps ==
    ASSUME TypeOK, Next, NEW v \in Workers
    PROVE  txn'[v] = txn[v] \/ Settled(v) \/ Prepares(v)
<1> DEFINE Goal == txn'[v] = txn[v] \/ Settled(v) \/ Prepares(v)
<1>1. /\ txn \in [Workers -> Txn]
      /\ NoTxn.pc = "idle" /\ NoTxn.at = 0
  BY DEF TypeOK, NoTxn
<1>2. ASSUME NEW w \in Workers, Done(w) PROVE Goal BY <1>1, <1>2 DEF Done, Settled
<1>3. ASSUME NEW w \in Workers, Request(w) PROVE Goal
  <2>1. ASSUME NEW o \in Orders, NEW u \in Users, NEW p \in OnSale, BeginOrder(w, o, u, p)
        PROVE  Goal
    BY <1>1, <2>1 DEF BeginOrder, Settled, NoTxn
  <2>2. ASSUME NEW o \in Orders, StartActivation(w, o) PROVE Goal
    BY <1>1, <2>2 DEF StartActivation, Settled, NoTxn
  <2>3. ASSUME NEW o \in Orders, CapturedWebhook(w, o) \/ Settle(w, o) PROVE Goal
    BY <2>2, <2>3, Zenon DEF CapturedWebhook, Settle
  <2>4. ASSUME NEW o \in Orders, NEW kind \in Reversals, BeginRevoke(w, o, kind) PROVE Goal
    <3>1. CASE v = w BY <2>4, <3>1 DEF Prepares
    <3>2. CASE v # w BY <1>1, <2>4, <3>2 DEF BeginRevoke
    <3>3. QED BY <3>1, <3>2
  <2>5. ASSUME NEW g \in Grants \cup {Null}, NEW u \in Users, NEW p \in AdminPlans,
               NEW d \in GrantDays, NEW allow \in BOOLEAN, BeginGrant(w, g, u, p, d, allow)
        PROVE  Goal
    <3>1. CASE v = w BY <2>5, <3>1 DEF Prepares
    <3>2. CASE v # w BY <1>1, <2>5, <3>2 DEF BeginGrant
    <3>3. QED BY <3>1, <3>2
  <2>6. ASSUME NEW c \in Coupons, BeginRedeem(w, c) PROVE Goal
    BY <1>1, <2>6 DEF BeginRedeem, Settled, NoTxn
  <2>7. QED BY <1>3, <2>1, <2>3, <2>4, <2>5, <2>6 DEF Request
<1>4. ASSUME NEW w \in Workers, Continue(w) PROVE Goal
  <2>1. CASE Claim(w) BY <1>1, <1>2, <2>1 DEF Claim, Settled, Txn
  <2>2. CASE LockUser(w) \/ ReadBest(w)
    <3>1. CASE v = w BY <2>2, <3>1 DEF Prepares
    <3>2. CASE v # w BY <1>1, <2>2, <3>2 DEF LockUser, ReadBest
    <3>3. QED BY <3>1, <3>2
  <2>3. QED
    BY <1>2, <1>4, <2>1, <2>2, Zenon
    DEF Continue, InsertOrder, CommitActivation, CommitRevoke, CommitGrant, CommitRedeem
<1>5. ASSUME Environment PROVE Goal
  BY <1>5, Zenon DEF Environment, Pay, AutoCapture, Dispute, RecordPartialRefund, Refund,
     ChangePrice, Cancel, Tick
<1>6. ASSUME Failure PROVE Goal
  <2>1. CASE Restart BY <1>1, <2>1 DEF Restart, Settled
  <2>2. QED BY <1>2, <1>6, <2>1, Zenon DEF Failure, Abort, DeadlockVictim
<1>7. QED BY <1>3, <1>4, <1>5, <1>6 DEF Next

(* _recompute_user_plan takes a row in force, or "free".                   *)
Takes(w, p, e) ==
    /\ txn' = [txn EXCEPT ![w].pc = "revoke", ![w].plan = p, ![w].exp = e]
    /\ \/ p = "free" /\ e = Null
       \/ \E s \in SubIds :
             /\ subs[s].user = txn[w].user /\ subs[s].status \in Held
             /\ p = subs[s].plan /\ e = subs[s].expires
    /\ UNCHANGED <<now, users, subs>>

LEMMA BestTaken ==
    ASSUME NEW w \in Workers, ReadBest(w)
    PROVE  \E p, e : Takes(w, p, e)
<1>1. \A s \in StillInForce(txn[w]) :
         s \in SubIds /\ subs[s].user = txn[w].user /\ subs[s].status \in Held
  BY DEF StillInForce, InForceOf, InForce
<1>2. CASE txn' = [txn EXCEPT ![w].pc = "revoke", ![w].plan = "free", ![w].exp = Null]
  BY <1>2, Zenon DEF ReadBest, Takes
<1>3. CASE \E s \in StillInForce(txn[w]) :
              txn' = [txn EXCEPT ![w].pc = "revoke", ![w].plan = subs[s].plan,
                                 ![w].exp = subs[s].expires]
  BY <1>1, <1>3, Zenon DEF ReadBest, Takes
<1>4. QED BY <1>2, <1>3, Zenon DEF ReadBest

(* What ReadBest takes: no plan, or the best of what is left in force.     *)
BestOf(w, b) ==
    /\ b \in StillInForce(txn[w])
    /\ \A s \in StillInForce(txn[w]) : AtLeastAsGood(b, s)
    /\ txn' = [txn EXCEPT ![w].pc = "revoke", ![w].plan = subs[b].plan, ![w].exp = subs[b].expires]

LEMMA BestRead ==
    ASSUME NEW w \in Workers, ReadBest(w)
    PROVE  /\ UNCHANGED <<now, users, subs, history>>
           /\ \/ /\ StillInForce(txn[w]) = {}
                 /\ txn' = [txn EXCEPT ![w].pc = "revoke", ![w].plan = "free", ![w].exp = Null]
              \/ \E b \in SubIds : BestOf(w, b)
<1>1. \A s \in StillInForce(txn[w]) : s \in SubIds BY DEF StillInForce, InForceOf
<1>2. QED BY <1>1, Zenon DEF ReadBest, BestOf

LEMMA ReadBeforeInv ==
    ASSUME IInv, IInv', ReadBefore, Next
    PROVE  ReadBefore' /\ now' >= now
<1>1. TypeOK /\ TypeOK' BY DEF IInv
<1>2. now \in Nat /\ now' \in Nat /\ \A v \in Workers : txn[v].at \in Nat BY <1>1 DEF TypeOK, Txn
<1>3. now' = now \/ now' = now + 1
  <2>1. ASSUME NEW w \in Workers, Request(w) PROVE now' = now
    BY <2>1, Zenon DEF Request, BeginOrder, CapturedWebhook, Settle, BeginRevoke, BeginGrant,
       BeginRedeem
  <2>2. ASSUME NEW w \in Workers, Continue(w) PROVE now' = now
    BY <2>2, Zenon DEF Continue, InsertOrder, Claim, LockUser, CommitActivation, ReadBest,
       CommitRevoke, CommitGrant, CommitRedeem
  <2>3. ASSUME Environment PROVE now' = now \/ now' = now + 1
    BY <2>3, Zenon DEF Environment, Pay, AutoCapture, Dispute, RecordPartialRefund, Refund,
       ChangePrice, Cancel, Tick
  <2>4. ASSUME Failure PROVE now' = now
    BY <2>4, Zenon DEF Failure, Restart, Abort, DeadlockVictim
  <2>5. QED BY <2>1, <2>2, <2>3, <2>4 DEF Next
<1>4. ASSUME NEW v \in Workers PROVE txn'[v].at <= now'
  <2>1. txn[v].at <= now BY DEF ReadBefore
  <2>2. CASE txn'[v] = txn[v] \/ Settled(v) BY <1>2, <1>3, <2>1, <2>2 DEF Settled
  <2>3. CASE Prepares(v)
    <3>1. txn'[v].at = now \/ txn'[v].at = txn[v].at
      <4>1. CASE LockUser(v) BY <1>1, <4>1 DEF LockUser, TypeOK, Txn
      <4>2. CASE ReadBest(v)
        <5>1. PICK p, e : Takes(v, p, e) BY <4>2, BestTaken
        <5>2. txn'[v] = [txn[v] EXCEPT !.pc = "revoke", !.plan = p, !.exp = e] /\ txn[v] \in Txn
          BY <1>1, <5>1 DEF TypeOK, Takes
        <5>3. QED BY <5>2 DEF Txn
      <4>3. CASE \E g \in Grants \cup {Null}, u \in Users, p \in AdminPlans, d \in GrantDays,
                    allow \in BOOLEAN : BeginGrant(v, g, u, p, d, allow)
        BY <1>1, <4>3 DEF BeginGrant, TypeOK, NoTxn
      <4>4. CASE \E o \in Orders, kind \in Reversals : BeginRevoke(v, o, kind)
        BY <1>1, <4>4 DEF BeginRevoke, TypeOK, NoTxn
      <4>5. QED BY <2>3, <4>1, <4>2, <4>3, <4>4 DEF Prepares
    <3>2. QED BY <1>2, <1>3, <2>1, <3>1
  <2>4. QED BY <1>1, <2>2, <2>3, TxnSteps
<1>5. QED BY <1>2, <1>3, <1>4 DEF ReadBefore

LEMMA BlankRowsInv ==
    ASSUME IInv, BlankRows, RefundsPaid, Next
    PROVE  BlankRows'
<1> USE StatusFacts
<1>1. subs \in [SubIds -> SubRow] BY DEF IInv, TypeOK
<1>2. SUFFICES ASSUME NEW s \in SubIds
               PROVE  subs'[s].status = "none" => subs'[s] = subs[s]
  BY DEF BlankRows
<1>3. ASSUME NEW w \in Workers, InsertOrder(w)
      PROVE  subs'[s].status = "none" => subs'[s] = subs[s]
  <2>1. subs' = [subs EXCEPT ![txn[w].sub] = NewOrder(txn[w].user, txn[w].plan, txn[w].amount)]
    BY <1>3, InsertWrites
  <2>2. QED BY <1>1, <2>1 DEF NewOrder, NoSub
<1>4. ASSUME NEW w \in Workers, CommitActivation(w)
      PROVE  subs'[s].status = "none" => subs'[s] = subs[s]
  <2>1. subs' = [subs EXCEPT ![txn[w].sub].status = "active", ![txn[w].sub].expires = txn[w].exp]
    BY <1>4, ActivationWrites
  <2>2. QED BY <1>1, <2>1 DEF SubRow
<1>5. ASSUME NEW w \in Workers, CommitRevoke(w)
      PROVE  subs'[s].status = "none" => subs'[s] = subs[s]
  <2>1. /\ txn[w].to \in {"refunded", "disputed"}
        /\ subs' = [subs EXCEPT ![txn[w].sub].status = txn[w].to,
                       ![txn[w].sub].refunded = IF txn[w].to = "refunded" THEN 2 ELSE @]
    BY <1>5, RevokeWrites
  <2>2. QED BY <1>1, <2>1 DEF SubRow
<1>6. ASSUME NEW w \in Workers, CommitGrant(w)
      PROVE  subs'[s].status = "none" => subs'[s] = subs[s]
  <2>1. subs' = [x \in SubIds |->
                   IF x \in GrantVictims(txn[w]) THEN [subs[x] EXCEPT !.status = "revoked"]
                   ELSE IF x = txn[w].sub THEN GrantRow(txn[w]) ELSE subs[x]]
    BY <1>6, GrantWrites
  <2>2. GrantRow(txn[w]).status = "active" BY DEF GrantRow, NoSub
  <2>3. [subs[s] EXCEPT !.status = "revoked"].status = "revoked" BY <1>1 DEF SubRow
  <2>4. QED BY <2>1, <2>2, <2>3
<1>7. ASSUME NEW w \in Workers, CommitRedeem(w)
      PROVE  subs'[s].status = "none" => subs'[s] = subs[s]
  <2>1. subs' = [subs EXCEPT ![txn[w].sub] = [NoSub EXCEPT !.status = "active",
                                     !.user = txn[w].user, !.plan = txn[w].plan]]
    BY <1>7, RedeemWrites
  <2>2. QED BY <1>1, <2>1 DEF NoSub
<1>8. ASSUME NEW o \in Orders, RecordPartialRefund(o)
      PROVE  subs'[s].status = "none" => subs'[s] = subs[s]
  <2>1. subs' = [subs EXCEPT ![o].refunded = IF @ > 1 THEN @ ELSE 1] /\ gateway[o].refunded >= 1
    BY <1>8, PartialRefundWrites
  <2>2. gateway[o].pay = "captured"
    BY <2>1 DEF RefundsPaid, IInv, TypeOK, GatewayOrder
  <2>3. subs[o].status # "none" BY <2>2 DEF IInv, UnstoredUnpaid
  <2>4. QED BY <1>1, <2>1, <2>3 DEF SubRow
<1>9. ASSUME NEW u \in Users, Cancel(u)
      PROVE  subs'[s].status = "none" => subs'[s] = subs[s]
  BY <1>1, <1>9, CancelWrites DEF SubRow
<1>10. ASSUME Restart PROVE subs'[s].status = "none" => subs'[s] = subs[s]
  BY <1>1, <1>10, RestartWrites DEF SubRow
<1>11. QED
  BY <1>3, <1>4, <1>5, <1>6, <1>7, <1>8, <1>9, <1>10, StepCases DEF Writes

LEMMA RefundsPaidInv ==
    ASSUME IInv, IInv', RefundsPaid, Next
    PROVE  RefundsPaid'
<1>1. /\ gateway \in [Orders -> GatewayOrder]
      /\ \A o \in Orders : gateway[o].refunded > 0 => gateway[o].pay = "captured"
  BY DEF IInv, TypeOK, RefundsPaid
<1>2. CASE gateway' = gateway BY <1>2 DEF RefundsPaid
<1>3. ASSUME NEW o \in Orders, gateway' = [gateway EXCEPT ![o].pay = "captured"]
      PROVE  RefundsPaid'
  BY <1>1, <1>3 DEF RefundsPaid, GatewayOrder
<1>4. ASSUME NEW w \in Workers, Request(w) PROVE RefundsPaid'
  <2>1. gateway' = gateway \/ \E o \in Orders : gateway' = [gateway EXCEPT ![o].pay = "captured"]
    BY <1>4, Zenon DEF Request, BeginOrder, CapturedWebhook, Settle, BeginRevoke, BeginGrant,
       BeginRedeem
  <2>2. QED BY <2>1, <1>2, <1>3
<1>5. ASSUME NEW w \in Workers, Continue(w) PROVE RefundsPaid'
  <2>1. CASE InsertOrder(w)
    <3>1. gateway' = [gateway EXCEPT ![txn[w].sub] = Unpaid(txn[w].amount)]
      BY <2>1, InsertWrites
    <3>2. QED BY <1>1, <3>1 DEF RefundsPaid, Unpaid
  <2>2. CASE ~InsertOrder(w)
    <3>1. gateway' = gateway
      BY <1>5, <2>2, Zenon DEF Continue, Claim, LockUser, CommitActivation, ReadBest, CommitRevoke,
         CommitGrant, CommitRedeem
    <3>2. QED BY <3>1, <1>2
  <2>3. QED BY <2>1, <2>2
<1>6. ASSUME Environment PROVE RefundsPaid'
  <2>1. ASSUME NEW o \in Orders, Pay(o) PROVE RefundsPaid'
    BY <1>1, <2>1 DEF Pay, GatewayOrder, RefundsPaid
  <2>2. ASSUME NEW o \in Orders, AutoCapture(o) PROVE RefundsPaid'
    BY <1>3, <2>2 DEF AutoCapture
  <2>3. ASSUME NEW o \in Orders, Dispute(o) PROVE RefundsPaid'
    BY <1>1, <2>3 DEF Dispute, GatewayOrder, RefundsPaid
  <2>4. ASSUME NEW o \in Orders, NEW total \in 1..2, Refund(o, total) PROVE RefundsPaid'
    BY <1>1, <2>4 DEF Refund, GatewayOrder, RefundsPaid
  <2>5. QED
    BY <1>2, <1>6, <2>1, <2>2, <2>3, <2>4, Zenon
    DEF Environment, RecordPartialRefund, ChangePrice, Cancel, Tick
<1>7. ASSUME Failure PROVE RefundsPaid'
  <2>1. gateway' = gateway BY <1>7, Zenon DEF Failure, Restart, Abort, DeadlockVictim
  <2>2. QED BY <2>1, <1>2
<1>8. QED BY <1>4, <1>5, <1>6, <1>7 DEF Next

(* No step lowers the refunded amount of an order. *)
LEMMA RefundsKept ==
    ASSUME IInv, BlankRows, Next, NEW o \in Orders
    PROVE  subs'[o].refunded >= subs[o].refunded
<1> USE StatusFacts
<1>1. /\ subs \in [SubIds -> SubRow] /\ o \in SubIds /\ subs[o].refunded \in 0..2
  BY DEF IInv, TypeOK, SubRow
<1>2. ASSUME NEW w \in Workers, InsertOrder(w) PROVE subs'[o].refunded >= subs[o].refunded
  <2>1. /\ subs' = [subs EXCEPT ![txn[w].sub] = NewOrder(txn[w].user, txn[w].plan, txn[w].amount)]
        /\ txn[w].sub \in SubIds /\ subs[txn[w].sub].status = "none"
    BY <1>2, InsertWrites
  <2>2. subs[txn[w].sub].refunded = 0 BY <2>1 DEF BlankRows, NoSub
  <2>3. QED BY <1>1, <2>1, <2>2 DEF NewOrder, NoSub
<1>3. ASSUME NEW w \in Workers, CommitActivation(w) PROVE subs'[o].refunded >= subs[o].refunded
  <2>1. subs' = [subs EXCEPT ![txn[w].sub].status = "active", ![txn[w].sub].expires = txn[w].exp]
    BY <1>3, ActivationWrites
  <2>2. QED BY <1>1, <2>1 DEF SubRow
<1>4. ASSUME NEW w \in Workers, CommitRevoke(w) PROVE subs'[o].refunded >= subs[o].refunded
  <2>1. subs' = [subs EXCEPT ![txn[w].sub].status = txn[w].to,
                    ![txn[w].sub].refunded = IF txn[w].to = "refunded" THEN 2 ELSE @]
    BY <1>4, RevokeWrites
  <2>2. QED BY <1>1, <2>1 DEF SubRow
<1>5. ASSUME NEW w \in Workers, CommitGrant(w) PROVE subs'[o].refunded >= subs[o].refunded
  <2>1. /\ subs' = [x \in SubIds |->
                     IF x \in GrantVictims(txn[w]) THEN [subs[x] EXCEPT !.status = "revoked"]
                     ELSE IF x = txn[w].sub THEN GrantRow(txn[w]) ELSE subs[x]]
        /\ txn[w].sub = Null \/ txn[w].sub \in Grants
    BY <1>5, GrantWrites
  <2>2. o # txn[w].sub BY <1>1, <2>1, BillingAssumption
  <2>3. QED BY <1>1, <2>1, <2>2 DEF SubRow
<1>6. ASSUME NEW w \in Workers, CommitRedeem(w) PROVE subs'[o].refunded >= subs[o].refunded
  <2>1. /\ subs' = [subs EXCEPT ![txn[w].sub] = [NoSub EXCEPT !.status = "active",
                                      !.user = txn[w].user, !.plan = txn[w].plan]]
        /\ txn[w].sub \in Coupons
    BY <1>6, RedeemWrites
  <2>2. o # txn[w].sub BY <2>1, BillingAssumption
  <2>3. QED BY <1>1, <2>1, <2>2
<1>7. ASSUME NEW x \in Orders, RecordPartialRefund(x) PROVE subs'[o].refunded >= subs[o].refunded
  <2>1. subs' = [subs EXCEPT ![x].refunded = IF @ > 1 THEN @ ELSE 1]
    BY <1>7, PartialRefundWrites
  <2>2. QED BY <1>1, <2>1 DEF SubRow
<1>8. ASSUME NEW u \in Users, Cancel(u) PROVE subs'[o].refunded >= subs[o].refunded
  <2>1. subs'[o] = subs[o] \/ subs'[o] = [subs[o] EXCEPT !.status = "cancelled"]
    BY <1>1, <1>8, CancelWrites
  <2>2. QED BY <1>1, <2>1 DEF SubRow
<1>9. ASSUME Restart PROVE subs'[o].refunded >= subs[o].refunded
  <2>1. subs'[o] = subs[o] \/ subs'[o] = [subs[o] EXCEPT !.status = "expired"]
    BY <1>1, <1>9, RestartWrites
  <2>2. QED BY <1>1, <2>1 DEF SubRow
<1>10. CASE UNCHANGED subs BY <1>1, <1>10
<1>11. QED
  BY <1>2, <1>3, <1>4, <1>5, <1>6, <1>7, <1>8, <1>9, <1>10, StepCases DEF Writes

----------------------------------------------------------------------------
(* Commits that give a plan: to its row, and to its user unless lower.     *)
Gives(w) == CommitActivation(w) \/ CommitGrant(w) \/ CommitRedeem(w)

GivenEnd(t) == IF t.pc = "redeem" THEN Null ELSE t.exp

Given(w, u) ==
    /\ Gives(w) /\ txn[w].user = u
    /\ users'[u] = [users[u] EXCEPT !.plan = txn[w].plan, !.planExp = GivenEnd(txn[w]),
                                    !.trialExp = EndTrial(users[u].trialExp, txn[w].at)]

TakenBack(w, u) ==
    /\ CommitRevoke(w) /\ txn[w].user = u
    /\ users'[u] = [users[u] EXCEPT !.plan = txn[w].plan, !.planExp = txn[w].exp]

LEMMA GivesPc ==
    ASSUME NEW w \in Workers
    PROVE  /\ CommitActivation(w) => txn[w].pc = "activate"
           /\ CommitGrant(w) => txn[w].pc = "grant"
           /\ CommitRedeem(w) => txn[w].pc = "redeem"
           /\ CommitRevoke(w) => txn[w].pc = "revoke"
BY Zenon DEF CommitActivation, CommitGrant, CommitRedeem, CommitRevoke

LEMMA UserMoves ==
    ASSUME IInv, Next, NEW u \in Users
    PROVE  \/ users'[u] = users[u]
           \/ Lapsed(u) /\ users'[u] = [users[u] EXCEPT !.plan = "free", !.planExp = Null]
           \/ \E w \in Workers : Given(w, u) \/ TakenBack(w, u)
<1> DEFINE Goal == \/ users'[u] = users[u]
                   \/ Lapsed(u) /\ users'[u] = [users[u] EXCEPT !.plan = "free", !.planExp = Null]
                   \/ \E w \in Workers : Given(w, u) \/ TakenBack(w, u)
<1>1. users \in [Users -> UserRow] BY DEF IInv, TypeOK
<1>2. ASSUME NEW w \in Workers, CommitActivation(w) PROVE Goal
  <2>1. \/ users' = [users EXCEPT ![txn[w].user].plan = txn[w].plan,
                                  ![txn[w].user].planExp = txn[w].exp,
                                  ![txn[w].user].trialExp = EndTrial(@, txn[w].at)]
        \/ users' = users
    BY <1>2, ActivationWrites
  <2>2. txn[w].pc = "activate" BY <1>2, GivesPc
  <2>3. CASE u = txn[w].user BY <1>1, <1>2, <2>1, <2>2, <2>3 DEF Given, Gives, GivenEnd
  <2>4. QED BY <1>1, <2>1, <2>3
<1>3. ASSUME NEW w \in Workers, CommitGrant(w) PROVE Goal
  <2>1. users' = [users EXCEPT ![txn[w].user].plan = txn[w].plan,
                               ![txn[w].user].planExp = txn[w].exp,
                               ![txn[w].user].trialExp = EndTrial(@, txn[w].at)]
    BY <1>3, GrantWrites
  <2>2. txn[w].pc = "grant" BY <1>3, GivesPc
  <2>3. CASE u = txn[w].user BY <1>1, <1>3, <2>1, <2>2, <2>3 DEF Given, Gives, GivenEnd
  <2>4. QED BY <1>1, <2>1, <2>3
<1>4. ASSUME NEW w \in Workers, CommitRedeem(w) PROVE Goal
  <2>1. users' = [users EXCEPT ![txn[w].user].plan = txn[w].plan,
                               ![txn[w].user].planExp = Null,
                               ![txn[w].user].trialExp = EndTrial(@, txn[w].at)]
    BY <1>4, RedeemWrites
  <2>2. txn[w].pc = "redeem" BY <1>4, GivesPc
  <2>3. CASE u = txn[w].user BY <1>1, <1>4, <2>1, <2>2, <2>3 DEF Given, Gives, GivenEnd
  <2>4. QED BY <1>1, <2>1, <2>3
<1>5. ASSUME NEW w \in Workers, CommitRevoke(w) PROVE Goal
  <2>1. users' = [users EXCEPT ![txn[w].user].plan = txn[w].plan,
                               ![txn[w].user].planExp = txn[w].exp]
    BY <1>5, RevokeWrites
  <2>2. CASE u = txn[w].user BY <1>1, <1>5, <2>1, <2>2 DEF TakenBack
  <2>3. QED BY <1>1, <2>1, <2>2
<1>6. CASE Restart BY <1>6, RestartWrites
<1>7. ASSUME NEW w \in Workers, InsertOrder(w) PROVE Goal BY <1>7, InsertWrites
<1>8. ASSUME NEW o \in Orders, RecordPartialRefund(o) PROVE Goal BY <1>8, PartialRefundWrites
<1>9. ASSUME NEW x \in Users, Cancel(x) PROVE Goal BY <1>9, Zenon DEF Cancel
<1>10. CASE UNCHANGED users BY <1>10
<1>11. QED
  BY <1>2, <1>3, <1>4, <1>5, <1>6, <1>7, <1>8, <1>9, <1>10, StepCases DEF Writes

(* A row in force was in force, or was given by this very step.            *)
SameTerms(s) ==
    /\ subs[s].status \in Held
    /\ subs'[s].user = subs[s].user /\ subs'[s].plan = subs[s].plan
    /\ subs'[s].expires = subs[s].expires

GivenRow(w, s) ==
    /\ Gives(w) /\ txn[w].sub = s /\ txn[w].user \in Users
    /\ subs'[s].user = txn[w].user /\ subs'[s].plan = txn[w].plan
    /\ subs'[s].expires = GivenEnd(txn[w])

LEMMA RowMoves ==
    ASSUME IInv, BlankRows, Next, NEW s \in SubIds, subs'[s].status \in Held
    PROVE  SameTerms(s) \/ \E w \in Workers : GivenRow(w, s)
<1> USE StatusFacts DEF Held, Claimable
<1> DEFINE Goal == SameTerms(s) \/ \E w \in Workers : GivenRow(w, s)
<1>1. subs \in [SubIds -> SubRow] BY DEF IInv, TypeOK
<1>2. CASE subs'[s] = subs[s] BY <1>2 DEF SameTerms
<1>3. ASSUME NEW w \in Workers, InsertOrder(w) PROVE Goal
  <2>1. subs' = [subs EXCEPT ![txn[w].sub] = NewOrder(txn[w].user, txn[w].plan, txn[w].amount)]
    BY <1>3, InsertWrites
  <2>2. QED BY <1>1, <1>2, <2>1 DEF NewOrder, NoSub
<1>4. ASSUME NEW w \in Workers, CommitActivation(w) PROVE Goal
  <2>1. /\ subs' = [subs EXCEPT ![txn[w].sub].status = "active", ![txn[w].sub].expires = txn[w].exp]
        /\ subs[txn[w].sub].user = txn[w].user /\ subs[txn[w].sub].plan = txn[w].plan
        /\ txn[w].user \in Users
    BY <1>4, ActivationWrites
  <2>2. txn[w].pc = "activate" BY <1>4, GivesPc
  <2>3. CASE s = txn[w].sub BY <1>1, <1>4, <2>1, <2>2, <2>3 DEF GivenRow, Gives, GivenEnd, SubRow
  <2>4. QED BY <1>1, <1>2, <2>1, <2>3
<1>5. ASSUME NEW w \in Workers, CommitRevoke(w) PROVE Goal
  <2>1. /\ txn[w].to \in {"refunded", "disputed"}
        /\ subs' = [subs EXCEPT ![txn[w].sub].status = txn[w].to,
                       ![txn[w].sub].refunded = IF txn[w].to = "refunded" THEN 2 ELSE @]
    BY <1>5, RevokeWrites
  <2>2. QED BY <1>1, <1>2, <2>1 DEF SubRow
<1>6. ASSUME NEW w \in Workers, CommitGrant(w) PROVE Goal
  <2>1. /\ subs' = [x \in SubIds |->
                   IF x \in GrantVictims(txn[w]) THEN [subs[x] EXCEPT !.status = "revoked"]
                   ELSE IF x = txn[w].sub THEN GrantRow(txn[w]) ELSE subs[x]]
        /\ txn[w].pc = "grant" /\ txn[w].user \in Users
    BY <1>6, GrantWrites
  <2>2. [subs[s] EXCEPT !.status = "revoked"].status = "revoked" BY <1>1 DEF SubRow
  <2>3. CASE s = txn[w].sub
    <3>1. subs'[s] = GrantRow(txn[w]) BY <2>1, <2>2, <2>3
    <3>2. QED BY <1>6, <2>1, <2>3, <3>1 DEF GivenRow, Gives, GivenEnd, GrantRow, NoSub
  <2>4. QED BY <1>2, <2>1, <2>2, <2>3
<1>7. ASSUME NEW w \in Workers, CommitRedeem(w) PROVE Goal
  <2>1. /\ subs' = [subs EXCEPT ![txn[w].sub] = [NoSub EXCEPT !.status = "active",
                                     !.user = txn[w].user, !.plan = txn[w].plan]]
        /\ txn[w].pc = "redeem" /\ txn[w].user \in Users
    BY <1>7, RedeemWrites
  <2>2. CASE s = txn[w].sub
    BY <1>1, <1>7, <2>1, <2>2 DEF GivenRow, Gives, GivenEnd, NoSub
  <2>3. QED BY <1>1, <1>2, <2>1, <2>2
<1>8. ASSUME NEW o \in Orders, RecordPartialRefund(o) PROVE Goal
  <2>1. subs' = [subs EXCEPT ![o].refunded = IF @ > 1 THEN @ ELSE 1]
    BY <1>8, PartialRefundWrites
  <2>2. QED BY <1>1, <1>2, <2>1 DEF SubRow, SameTerms
<1>9. ASSUME NEW u \in Users, Cancel(u) PROVE Goal
  <2>1. \/ subs'[s] = subs[s]
        \/ subs[s].status = "active" /\ subs'[s] = [subs[s] EXCEPT !.status = "cancelled"]
    BY <1>9, CancelWrites
  <2>2. QED BY <1>1, <1>2, <2>1 DEF SubRow, SameTerms
<1>10. CASE Restart
  <2>1. subs'[s] = subs[s] \/ subs'[s] = [subs[s] EXCEPT !.status = "expired"]
    BY <1>10, RestartWrites
  <2>2. QED BY <1>1, <1>2, <2>1 DEF SubRow
<1>11. CASE UNCHANGED subs BY <1>2, <1>11
<1>12. QED
  BY <1>3, <1>4, <1>5, <1>6, <1>7, <1>8, <1>9, <1>10, <1>11, StepCases DEF Writes

(* How a row that is held comes to its end.                                *)
LEMMA HeldEnds ==
    ASSUME IInv, Next, NEW s \in SubIds, subs[s].status \in Held
    PROVE  \/ subs'[s].status \in Held /\ SameTerms(s)
           \/ Restart /\ Stale(s)
           \/ \E w \in Workers : CommitRevoke(w) /\ txn[w].sub = s
           \/ \E w \in Workers : CommitGrant(w) /\ s \in GrantVictims(txn[w])
<1> USE StatusFacts
<1> DEFINE Goal == \/ subs'[s].status \in Held /\ SameTerms(s)
                   \/ Restart /\ Stale(s)
                   \/ \E w \in Workers : CommitRevoke(w) /\ txn[w].sub = s
                   \/ \E w \in Workers : CommitGrant(w) /\ s \in GrantVictims(txn[w])
<1>1. subs \in [SubIds -> SubRow] BY DEF IInv, TypeOK
<1>2. CASE subs'[s] = subs[s] BY <1>2 DEF SameTerms
<1>3. ASSUME NEW w \in Workers, InsertOrder(w) PROVE Goal
  <2>1. /\ subs' = [subs EXCEPT ![txn[w].sub] = NewOrder(txn[w].user, txn[w].plan, txn[w].amount)]
        /\ subs[txn[w].sub].status = "none"
    BY <1>3, InsertWrites
  <2>2. s # txn[w].sub BY <2>1 DEF Held
  <2>3. QED BY <1>1, <1>2, <2>1, <2>2
<1>4. ASSUME NEW w \in Workers, CommitActivation(w) PROVE Goal
  <2>1. /\ subs' = [subs EXCEPT ![txn[w].sub].status = "active", ![txn[w].sub].expires = txn[w].exp]
        /\ subs[txn[w].sub].status \in Claimable
    BY <1>4, ActivationWrites
  <2>2. s # txn[w].sub BY <2>1 DEF Held, Claimable
  <2>3. QED BY <1>1, <1>2, <2>1, <2>2
<1>5. ASSUME NEW w \in Workers, CommitRevoke(w) PROVE Goal
  <2>1. CASE s = txn[w].sub BY <1>5, <2>1
  <2>2. CASE s # txn[w].sub
    <3>1. subs' = [subs EXCEPT ![txn[w].sub].status = txn[w].to,
                               ![txn[w].sub].refunded = IF txn[w].to = "refunded" THEN 2 ELSE @]
      BY <1>5, RevokeWrites
    <3>2. QED BY <1>1, <1>2, <2>2, <3>1
  <2>3. QED BY <2>1, <2>2
<1>6. ASSUME NEW w \in Workers, CommitGrant(w) PROVE Goal
  <2>1. /\ subs' = [x \in SubIds |->
                   IF x \in GrantVictims(txn[w]) THEN [subs[x] EXCEPT !.status = "revoked"]
                   ELSE IF x = txn[w].sub THEN GrantRow(txn[w]) ELSE subs[x]]
        /\ txn[w].sub = Null \/ subs[txn[w].sub].status = "none"
    BY <1>6, GrantWrites
  <2>2. s # txn[w].sub BY <2>1 DEF Held
  <2>3. QED BY <1>1, <1>2, <1>6, <2>1, <2>2
<1>7. ASSUME NEW w \in Workers, CommitRedeem(w) PROVE Goal
  <2>1. /\ subs' = [subs EXCEPT ![txn[w].sub] = [NoSub EXCEPT !.status = "active",
                                     !.user = txn[w].user, !.plan = txn[w].plan]]
        /\ subs[txn[w].sub].status = "none"
    BY <1>7, RedeemWrites
  <2>2. s # txn[w].sub BY <2>1 DEF Held
  <2>3. QED BY <1>1, <1>2, <2>1, <2>2
<1>8. ASSUME NEW o \in Orders, RecordPartialRefund(o) PROVE Goal
  <2>1. subs' = [subs EXCEPT ![o].refunded = IF @ > 1 THEN @ ELSE 1]
    BY <1>8, PartialRefundWrites
  <2>2. QED BY <1>1, <2>1 DEF SubRow, SameTerms
<1>9. ASSUME NEW u \in Users, Cancel(u) PROVE Goal
  <2>1. subs'[s] = subs[s] \/ subs'[s] = [subs[s] EXCEPT !.status = "cancelled"]
    BY <1>9, CancelWrites
  <2>2. QED BY <1>1, <1>2, <2>1 DEF SubRow, SameTerms, Held
<1>10. CASE Restart BY <1>2, <1>10, RestartWrites
<1>11. CASE UNCHANGED subs BY <1>2, <1>11
<1>12. QED
  BY <1>3, <1>4, <1>5, <1>6, <1>7, <1>8, <1>9, <1>10, <1>11, StepCases DEF Writes

(* A stored row never changes hands.                                       *)
LEMMA OwnerKept ==
    ASSUME IInv, Next, NEW s \in SubIds, subs[s].status # "none"
    PROVE  subs'[s].user = subs[s].user
<1> USE StatusFacts
<1> DEFINE Goal == subs'[s].user = subs[s].user
<1>1. subs \in [SubIds -> SubRow] BY DEF IInv, TypeOK
<1>2. CASE subs'[s] = subs[s] BY <1>2
<1>3. ASSUME NEW w \in Workers, InsertOrder(w) PROVE Goal
  <2>1. /\ subs' = [subs EXCEPT ![txn[w].sub] = NewOrder(txn[w].user, txn[w].plan, txn[w].amount)]
        /\ subs[txn[w].sub].status = "none"
    BY <1>3, InsertWrites
  <2>2. QED BY <1>1, <1>2, <2>1
<1>4. ASSUME NEW w \in Workers, CommitActivation(w) PROVE Goal
  <2>1. subs' = [subs EXCEPT ![txn[w].sub].status = "active", ![txn[w].sub].expires = txn[w].exp]
    BY <1>4, ActivationWrites
  <2>2. QED BY <1>1, <2>1 DEF SubRow
<1>5. ASSUME NEW w \in Workers, CommitRevoke(w) PROVE Goal
  <2>1. subs' = [subs EXCEPT ![txn[w].sub].status = txn[w].to,
                             ![txn[w].sub].refunded = IF txn[w].to = "refunded" THEN 2 ELSE @]
    BY <1>5, RevokeWrites
  <2>2. QED BY <1>1, <2>1 DEF SubRow
<1>6. ASSUME NEW w \in Workers, CommitGrant(w) PROVE Goal
  <2>1. /\ subs' = [x \in SubIds |->
                   IF x \in GrantVictims(txn[w]) THEN [subs[x] EXCEPT !.status = "revoked"]
                   ELSE IF x = txn[w].sub THEN GrantRow(txn[w]) ELSE subs[x]]
        /\ txn[w].sub = Null \/ subs[txn[w].sub].status = "none"
    BY <1>6, GrantWrites
  <2>2. QED BY <1>1, <1>2, <2>1 DEF SubRow
<1>7. ASSUME NEW w \in Workers, CommitRedeem(w) PROVE Goal
  <2>1. /\ subs' = [subs EXCEPT ![txn[w].sub] = [NoSub EXCEPT !.status = "active",
                                     !.user = txn[w].user, !.plan = txn[w].plan]]
        /\ subs[txn[w].sub].status = "none"
    BY <1>7, RedeemWrites
  <2>2. QED BY <1>1, <1>2, <2>1
<1>8. ASSUME NEW o \in Orders, RecordPartialRefund(o) PROVE Goal
  BY <1>1, <1>8, PartialRefundWrites DEF SubRow
<1>9. ASSUME NEW u \in Users, Cancel(u) PROVE Goal
  <2>1. subs'[s] = subs[s] \/ subs'[s] = [subs[s] EXCEPT !.status = "cancelled"]
    BY <1>9, CancelWrites
  <2>2. QED BY <1>1, <2>1 DEF SubRow
<1>10. CASE Restart
  <2>1. subs'[s] = subs[s] \/ subs'[s] = [subs[s] EXCEPT !.status = "expired"]
    BY <1>10, RestartWrites
  <2>2. QED BY <1>1, <2>1 DEF SubRow
<1>11. CASE UNCHANGED subs BY <1>11
<1>12. QED
  BY <1>3, <1>4, <1>5, <1>6, <1>7, <1>8, <1>9, <1>10, <1>11, StepCases DEF Writes

----------------------------------------------------------------------------
(* Trials end when a paid plan begins, and stay ended.                     *)

LEMMA EndTrialEnds ==
    ASSUME NEW e \in Day, NEW d \in Nat, NEW n \in Nat, d <= n
    PROVE  EndTrial(e, d) = Null \/ EndTrial(e, d) <= n
BY BillingAssumption DEF EndTrial, Day

LEMMA GivenEndsTrial ==
    ASSUME IInv, IInv', ReadBefore, Next, NEW u \in Users, NEW w \in Workers, Given(w, u)
    PROVE  TrialOver(u)'
<1>1. /\ users \in [Users -> UserRow] /\ txn[w].at \in Nat /\ txn[w].at <= now
      /\ now \in Nat /\ now' \in Nat /\ now' >= now
  BY ReadBeforeInv DEF IInv, TypeOK, Txn, ReadBefore
<1>2. users[u].trialExp \in Day /\ users[u] \in UserRow BY <1>1 DEF UserRow
<1>3. users'[u].trialExp = EndTrial(users[u].trialExp, txn[w].at) BY <1>2 DEF Given, UserRow
<1>4. txn[w].at <= now' BY <1>1
<1>5. QED BY <1>1, <1>2, <1>3, <1>4, EndTrialEnds DEF TrialOver

LEMMA TrialStaysOver ==
    ASSUME IInv, IInv', ReadBefore, Next, NEW u \in Users, TrialOver(u)
    PROVE  TrialOver(u)'
<1>1. /\ users \in [Users -> UserRow] /\ now \in Nat /\ now' \in Nat /\ now' >= now
  BY ReadBeforeInv DEF IInv, TypeOK
<1>2. users[u] \in UserRow /\ users[u].trialExp \in Day BY <1>1 DEF UserRow
<1>3. CASE users'[u].trialExp = users[u].trialExp
  BY <1>1, <1>2, <1>3, BillingAssumption DEF TrialOver, Day
<1>4. ASSUME NEW w \in Workers, Given(w, u) PROVE TrialOver(u)' BY <1>4, GivenEndsTrial
<1>5. ASSUME NEW w \in Workers, TakenBack(w, u) PROVE users'[u].trialExp = users[u].trialExp
  BY <1>2, <1>5 DEF TakenBack, UserRow
<1>6. CASE users'[u] = [users[u] EXCEPT !.plan = "free", !.planExp = Null]
  BY <1>2, <1>3, <1>6 DEF UserRow
<1>7. QED BY <1>3, <1>4, <1>5, <1>6, UserMoves

LEMMA TrialsEndedInv ==
    ASSUME IInv, IInv', BlankRows, ReadBefore, TrialsEnded, Next
    PROVE  TrialsEnded'
<1> USE StatusFacts
<1>1. users \in [Users -> UserRow] /\ txn \in [Workers -> Txn] BY DEF IInv, TypeOK
<1>2. ASSUME NEW u \in Users, users'[u].plan # "free" PROVE TrialOver(u)'
  <2>1. CASE users'[u] = users[u] BY <1>2, <2>1, TrialStaysOver DEF TrialsEnded
  <2>2. CASE users'[u] = [users[u] EXCEPT !.plan = "free", !.planExp = Null]
    BY <1>1, <1>2, <2>2 DEF UserRow
  <2>3. ASSUME NEW w \in Workers, TakenBack(w, u) PROVE TrialOver(u)'
    <3>1. txn[w].user = u /\ txn[w].pc = "revoke" BY <2>3, GivesPc DEF TakenBack
    <3>2. users'[u].plan = txn[w].plan BY <1>1, <2>3 DEF TakenBack, UserRow
    <3>3. TrialOver(u) BY <1>2, <3>1, <3>2 DEF TrialsEnded
    <3>4. QED BY <3>3, TrialStaysOver
  <2>4. QED BY <2>1, <2>2, <2>3, GivenEndsTrial, UserMoves
<1>3. ASSUME NEW s \in SubIds, subs'[s].status \in Held PROVE TrialOver(subs[s].user)'
  <2>1. CASE SameTerms(s)
    <3>1. subs[s].user \in Users
      BY <2>1 DEF SameTerms, IInv, RowsSound, TypeOK, SubRow, Held
    <3>2. TrialOver(subs[s].user) BY <2>1 DEF SameTerms, TrialsEnded
    <3>3. subs'[s].user = subs[s].user BY <2>1 DEF SameTerms
    <3>4. \A x \in Users : TrialOver(x) => TrialOver(x)' BY TrialStaysOver
    <3>5. QED BY <3>1, <3>2, <3>3, <3>4 DEF TrialOver
  <2>2. ASSUME NEW w \in Workers, GivenRow(w, s) PROVE TrialOver(subs[s].user)'
    <3>1. PICK u \in Users : u = txn[w].user /\ subs'[s].user = u BY <2>2 DEF GivenRow
    <3>2. TrialOver(u)'
      <4>1. CASE Given(w, u) BY <3>1, <4>1, GivenEndsTrial
      <4>2. CASE CommitActivation(w) /\ ~Given(w, u)
        <5>1. \/ users' = [users EXCEPT ![txn[w].user].plan = txn[w].plan, ![txn[w].user].planExp = txn[w].exp,
                                        ![txn[w].user].trialExp = EndTrial(@, txn[w].at)]
              \/ /\ PLAN_RANK[txn[w].plan] < PLAN_RANK[txn[w].live]
                 /\ txn[w].live = LivePlan(users[txn[w].user], txn[w].at) /\ txn[w].plan \in PaidPlans
          BY <4>2, ActivationWrites
        <5>2. txn[w].pc = "activate" BY <4>2, GivesPc
        <5>3. PLAN_RANK[txn[w].plan] < PLAN_RANK[txn[w].live] /\ txn[w].plan \in PaidPlans
              /\ txn[w].live = LivePlan(users[u], txn[w].at)
          BY <1>1, <3>1, <4>2, <5>1, <5>2 DEF Given, Gives, GivenEnd
        <5>4. txn[w].live # "free" BY <5>3 DEF PLAN_RANK
        <5>5. users[u].plan # "free" BY <5>3, <5>4 DEF LivePlan
        <5>6. QED BY <5>5, TrialStaysOver DEF TrialsEnded
      <4>3. CASE CommitGrant(w)
        <5>1. txn[w].pc = "grant"
              /\ users' = [users EXCEPT ![txn[w].user].plan = txn[w].plan, ![txn[w].user].planExp = txn[w].exp,
                                        ![txn[w].user].trialExp = EndTrial(@, txn[w].at)]
          BY <4>3, GrantWrites
        <5>2. Given(w, u) BY <1>1, <3>1, <4>3, <5>1 DEF Given, Gives, GivenEnd
        <5>3. QED BY <4>1, <5>2
      <4>4. CASE CommitRedeem(w)
        <5>1. txn[w].pc = "redeem"
              /\ users' = [users EXCEPT ![txn[w].user].plan = txn[w].plan, ![txn[w].user].planExp = Null,
                                        ![txn[w].user].trialExp = EndTrial(@, txn[w].at)]
          BY <4>4, RedeemWrites
        <5>2. Given(w, u) BY <1>1, <3>1, <4>4, <5>1 DEF Given, Gives, GivenEnd
        <5>3. QED BY <4>1, <5>2
      <4>5. QED BY <2>2, <4>1, <4>2, <4>3, <4>4 DEF GivenRow, Gives
    <3>3. QED BY <3>1, <3>2 DEF TrialOver
  <2>3. QED BY <1>3, <2>1, <2>2, RowMoves
<1>4. ASSUME NEW v \in Workers, txn'[v].pc = "revoke", txn'[v].plan # "free"
      PROVE  TrialOver(txn[v].user)'
  <2>1. CASE txn'[v] = txn[v]
    <3>1. txn[v].user \in Users BY <1>4, <2>1 DEF IInv, TxnInv, RevokeInv
    <3>2. TrialOver(txn[v].user) BY <1>4, <2>1 DEF TrialsEnded
    <3>3. \A x \in Users : TrialOver(x) => TrialOver(x)' BY TrialStaysOver
    <3>4. QED BY <2>1, <3>1, <3>2, <3>3 DEF TrialOver
  <2>2. CASE Prepares(v)
    <3>1. CASE ReadBest(v)
      <4>1. PICK p, e : Takes(v, p, e) BY <3>1, BestTaken
      <4>2. txn'[v] = [txn[v] EXCEPT !.pc = "revoke", !.plan = p, !.exp = e] /\ txn[v] \in Txn
        BY <1>1, <4>1 DEF Takes
      <4>3. txn'[v].plan = p /\ txn'[v].user = txn[v].user BY <4>2 DEF Txn
      <4>4. PICK s \in SubIds : subs[s].user = txn[v].user /\ subs[s].status \in Held
        BY <1>4, <4>1, <4>3 DEF Takes
      <4>5. txn[v].user \in Users BY <3>1 DEF ReadBest, IInv, TxnInv, RevokeInv
      <4>6. TrialOver(txn[v].user) BY <4>4 DEF TrialsEnded
      <4>7. \A x \in Users : TrialOver(x) => TrialOver(x)' BY TrialStaysOver
      <4>8. QED BY <4>3, <4>5, <4>6, <4>7 DEF TrialOver
    <3>2. CASE LockUser(v) BY <1>1, <1>4, <3>2 DEF LockUser, Txn
    <3>3. CASE \E g \in Grants \cup {Null}, u \in Users, p \in AdminPlans, d \in GrantDays,
                  allow \in BOOLEAN : BeginGrant(v, g, u, p, d, allow)
      BY <1>1, <1>4, <3>3 DEF BeginGrant, NoTxn
    <3>4. CASE \E o \in Orders, kind \in Reversals : BeginRevoke(v, o, kind)
      BY <1>1, <1>4, <3>4 DEF BeginRevoke, NoTxn
    <3>5. QED BY <2>2, <3>1, <3>2, <3>3, <3>4 DEF Prepares
  <2>3. TypeOK BY DEF IInv
  <2>4. QED BY <1>4, <2>1, <2>2, <2>3, TxnSteps DEF Settled
<1>5. QED BY <1>2, <1>3, <1>4 DEF TrialsEnded

----------------------------------------------------------------------------
(* Timed plans have an end, the others have none.                          *)

LEMMA StackedEnds ==
    ASSUME NEW usr \in UserRow, NEW plan \in PaidPlans, NEW d \in Nat
    PROVE  Ends(plan, StackedExpiry(usr, plan, d))
<1>1. LivePlan(usr, d) \in TimedPlans => usr.planExp \in Nat
  BY BillingAssumption DEF LivePlan, UserRow, TimedPlans, Day
<1>2. plan # "lifetime" => PLAN_DURATIONS[plan] \in Nat
  BY BillingAssumption DEF PLAN_DURATIONS, PaidPlans, TimedPlans
<1>3. usr.trialExp # Null => usr.trialExp \in Nat
  BY DEF UserRow, Day
<1>4. plan # "lifetime" => StackedExpiry(usr, plan, d) \in Nat
  BY <1>1, <1>2, <1>3 DEF StackedExpiry
<1>5. plan = "lifetime" => StackedExpiry(usr, plan, d) = Null BY DEF StackedExpiry
<1>6. QED BY <1>4, <1>5, BillingAssumption DEF Ends, PaidPlans, TimedPlans

LEMMA GivenEnds ==
    ASSUME IInv, EndsKnown, NEW w \in Workers, Gives(w)
    PROVE  Ends(txn[w].plan, GivenEnd(txn[w]))
<1>1. CASE CommitRedeem(w)
  <2>1. txn[w].pc = "redeem" BY <1>1, GivesPc
  <2>2. txn[w].plan = "lifetime" BY <2>1 DEF IInv, TxnInv, RedeemInv
  <2>3. QED BY <2>1, <2>2 DEF GivenEnd, Ends, TimedPlans
<1>2. CASE CommitActivation(w) \/ CommitGrant(w)
  BY <1>2, GivesPc DEF GivenEnd, EndsKnown
<1>3. QED BY <1>1, <1>2 DEF Gives

LEMMA EndsKnownInv ==
    ASSUME IInv, IInv', BlankRows, EndsKnown, Next
    PROVE  EndsKnown'
<1> USE StatusFacts
<1>1. /\ users \in [Users -> UserRow] /\ txn \in [Workers -> Txn] /\ subs \in [SubIds -> SubRow]
      /\ now \in Nat
  BY DEF IInv, TypeOK
<1>2. ASSUME NEW u \in Users PROVE Ends(users'[u].plan, users'[u].planExp)
  <2>1. CASE users'[u] = users[u] BY <2>1 DEF EndsKnown
  <2>2. CASE users'[u] = [users[u] EXCEPT !.plan = "free", !.planExp = Null]
    BY <1>1, <2>2 DEF UserRow, Ends, TimedPlans
  <2>3. ASSUME NEW w \in Workers, Given(w, u)
        PROVE  Ends(users'[u].plan, users'[u].planExp)
    <3>1. users'[u].plan = txn[w].plan /\ users'[u].planExp = GivenEnd(txn[w])
      BY <1>1, <2>3 DEF Given, UserRow
    <3>2. QED BY <2>3, <3>1, GivenEnds DEF Given
  <2>4. ASSUME NEW w \in Workers, TakenBack(w, u)
        PROVE  Ends(users'[u].plan, users'[u].planExp)
    <3>1. users'[u].plan = txn[w].plan /\ users'[u].planExp = txn[w].exp
      BY <1>1, <2>4 DEF TakenBack, UserRow
    <3>2. QED BY <2>4, <3>1, GivesPc DEF TakenBack, EndsKnown
  <2>5. QED BY <2>1, <2>2, <2>3, <2>4, UserMoves
<1>3. ASSUME NEW s \in SubIds, subs'[s].status \in Held
      PROVE  Ends(subs'[s].plan, subs'[s].expires)
  <2>1. CASE SameTerms(s) BY <2>1 DEF SameTerms, EndsKnown
  <2>2. ASSUME NEW w \in Workers, GivenRow(w, s) PROVE Ends(subs'[s].plan, subs'[s].expires)
    BY <2>2, GivenEnds DEF GivenRow
  <2>3. QED BY <1>3, <2>1, <2>2, RowMoves
<1>4. ASSUME NEW v \in Workers, txn'[v].pc \in {"activate", "revoke", "grant"}
      PROVE  Ends(txn'[v].plan, txn'[v].exp)
  <2>1. CASE txn'[v] = txn[v] BY <1>4, <2>1 DEF EndsKnown
  <2>2. CASE ReadBest(v)
    <3>1. PICK p, e : Takes(v, p, e) BY <2>2, BestTaken
    <3>2. txn'[v] = [txn[v] EXCEPT !.pc = "revoke", !.plan = p, !.exp = e] /\ txn[v] \in Txn
      BY <1>1, <3>1 DEF Takes
    <3>3. txn'[v].plan = p /\ txn'[v].exp = e BY <3>2 DEF Txn
    <3>4. Ends(p, e) BY <3>1 DEF Takes, EndsKnown, Ends, TimedPlans
    <3>5. QED BY <3>3, <3>4
  <2>3. CASE LockUser(v)
    <3>1. txn[v].pc = "lockUser" BY <2>3 DEF LockUser
    <3>2. txn[v].user \in Users /\ txn[v].plan \in PaidPlans
      BY <3>1 DEF IInv, TxnInv, ClaimInv
    <3>3. txn'[v].plan = txn[v].plan
          /\ txn'[v].exp = StackedExpiry(users[txn[v].user], txn[v].plan, now)
      BY <1>1, <2>3 DEF LockUser, Txn
    <3>4. QED BY <1>1, <3>2, <3>3, StackedEnds
  <2>4. ASSUME NEW g \in Grants \cup {Null}, NEW u \in Users, NEW p \in AdminPlans,
               NEW d \in GrantDays, NEW allow \in BOOLEAN, BeginGrant(v, g, u, p, d, allow)
        PROVE  Ends(txn'[v].plan, txn'[v].exp)
    <3>1. txn'[v].plan = p /\ txn'[v].exp = IF p \in TimedPlans THEN now + d ELSE Null
      BY <1>1, <2>4 DEF BeginGrant, NoTxn
    <3>2. d \in Nat BY BillingAssumption
    <3>3. QED BY <1>1, <3>1, <3>2 DEF Ends
  <2>5. CASE Settled(v) BY <1>4, <2>5 DEF Settled
  <2>6. CASE \E o \in Orders, kind \in Reversals : BeginRevoke(v, o, kind)
    BY <1>1, <1>4, <2>6 DEF BeginRevoke, NoTxn
  <2>7. TypeOK BY DEF IInv
  <2>8. QED BY <2>1, <2>2, <2>3, <2>4, <2>5, <2>6, <2>7, TxnSteps DEF Prepares
<1>5. QED BY <1>2, <1>3, <1>4 DEF EndsKnown

LEMMA InitRows == Init => RowsInv
<1> USE StatusFacts
<1> SUFFICES ASSUME Init PROVE RowsInv
  OBVIOUS
<1>1. /\ now = 0 /\ txn = [w \in Workers |-> NoTxn]
      /\ users \in [Users -> [plan : {"free"}, planExp : {Null}, trialExp : FirstTrials]]
  BY DEF Init
<1>2. PICK owner \in [LegacyOrders -> Users], plan \in [LegacyOrders -> OnSale],
           st \in [LegacyOrders -> Claimable] :
         /\ subs = [s \in SubIds |->
                      IF s \in LegacyOrders
                      THEN [NewOrder(owner[s], plan[s], Null) EXCEPT !.status = st[s]]
                      ELSE NoSub]
         /\ gateway = [o \in Orders |-> IF o \in LegacyOrders
                                        THEN Unpaid(price[plan[o]]) ELSE NoPayment]
  BY DEF Init
<1>3. \A s \in LegacyOrders : [NewOrder(owner[s], plan[s], Null) EXCEPT !.status = st[s]].status
                              \in Claimable
  BY DEF NewOrder, NoSub
<1>4. \A s \in SubIds : subs[s] = NoSub \/ subs[s].status \in Claimable
  BY <1>2, <1>3
<1>5. BlankRows BY <1>4 DEF BlankRows, Claimable
<1>6. RefundsPaid BY <1>2 DEF RefundsPaid, Unpaid, NoPayment
<1>7. ReadBefore BY <1>1 DEF ReadBefore, NoTxn
<1>8. \A s \in SubIds : subs[s].status \notin Held BY <1>4 DEF NoSub, Claimable, Held
<1>9. \A w \in Workers : txn[w].pc = "idle" BY <1>1 DEF NoTxn
<1>10. TrialsEnded BY <1>1, <1>8, <1>9 DEF TrialsEnded
<1>11. EndsKnown BY <1>1, <1>8, <1>9 DEF EndsKnown, Ends, TimedPlans
<1>12. QED BY <1>5, <1>6, <1>7, <1>10, <1>11 DEF RowsInv

LEMMA StepRows ==
    ASSUME IInv, IInv', RowsInv, [Next]_vars
    PROVE  RowsInv'
<1>1. CASE Next
  BY <1>1, BlankRowsInv, RefundsPaidInv, ReadBeforeInv, TrialsEndedInv, EndsKnownInv DEF RowsInv
<1>2. CASE UNCHANGED vars
  BY <1>2, Zenon DEF RowsInv, vars, BlankRows, RefundsPaid, ReadBefore, TrialsEnded, EndsKnown,
     TrialOver
<1>3. QED BY <1>1, <1>2

(* What every reachable state knows of its rows: blank rows are blank, only *)
(* captured payments are refunded, a trial is over once a plan was in force,*)
(* timed plans end and the others do not, for every request, too.           *)
THEOREM RowsKnown == Spec => []RowsInv
<1>1. Init => RowsInv BY InitRows
<1>2. IInv /\ IInv' /\ RowsInv /\ [Next]_vars => RowsInv' BY StepRows
<1>3. QED BY <1>1, <1>2, Inductive, PTL DEF Spec

(* The billing ends trials and does nothing else to them: the steps that   *)
(* module Trials lets the billing take on a user's row are all it takes    *)
(* (activate_subscription, grant_admin_subscription, redeem_coupon).       *)
THEOREM TrialsOnlyEnd == Spec => [][\A u \in Users : TrialOnlyEnds(u)]_vars
<1>1. ASSUME IInv, RowsInv, RowsInv', Next, NEW u \in Users PROVE TrialOnlyEnds(u)
  <2>1. users \in [Users -> UserRow] /\ users[u].trialExp \in Day /\ now \in Nat
    BY <1>1 DEF IInv, TypeOK, UserRow
  <2>2. users'[u].plan # "free" => users'[u].trialExp = Null \/ users'[u].trialExp <= now'
    BY <1>1 DEF RowsInv, TrialsEnded, TrialOver
  <2>3. CASE users'[u].trialExp = users[u].trialExp BY <2>2, <2>3 DEF TrialOnlyEnds
  <2>4. CASE Lapsed(u) /\ users'[u] = [users[u] EXCEPT !.plan = "free", !.planExp = Null]
    BY <2>1, <2>3, <2>4 DEF UserRow
  <2>5. ASSUME NEW w \in Workers, TakenBack(w, u) PROVE TrialOnlyEnds(u)
    BY <2>1, <2>3, <2>5 DEF TakenBack, UserRow
  <2>6. ASSUME NEW w \in Workers, Given(w, u) PROVE TrialOnlyEnds(u)
    <3>1. txn[w].at \in Nat /\ txn[w].at <= now
      BY <1>1 DEF IInv, TypeOK, Txn, RowsInv, ReadBefore
    <3>2. users'[u].trialExp = EndTrial(users[u].trialExp, txn[w].at)
      BY <2>1, <2>6 DEF Given, UserRow
    <3>3. users'[u].trialExp # users[u].trialExp =>
             users[u].trialExp > txn[w].at /\ users'[u].trialExp = txn[w].at /\ users[u].trialExp # Null
      BY <3>2 DEF EndTrial
    <3>4. QED BY <2>1, <2>2, <3>1, <3>3, StatusFacts DEF TrialOnlyEnds
  <2>7. QED BY <1>1, <2>3, <2>4, <2>5, <2>6, UserMoves
<1>2. IInv /\ RowsInv /\ RowsInv' /\ [Next]_vars => [\A u \in Users : TrialOnlyEnds(u)]_vars
  BY <1>1
<1>3. QED BY <1>2, Inductive, RowsKnown, PTL DEF Spec

(* The refunded amount on record never goes down, in whatever order the     *)
(* refund events arrive (razorpay_webhook, revoke_subscription).            *)
THEOREM RefundsRemembered == Spec => RefundNeverForgotten
<1>1. IInv /\ RowsInv /\ [Next]_vars =>
        [\A o \in Orders : subs'[o].refunded >= subs[o].refunded]_vars
  <2>1. ASSUME IInv, RowsInv, Next, NEW o \in Orders PROVE subs'[o].refunded >= subs[o].refunded
    BY <2>1, RefundsKept DEF RowsInv
  <2>2. QED BY <2>1
<1>2. QED BY <1>1, Inductive, RowsKnown, PTL DEF Spec, RefundNeverForgotten

----------------------------------------------------------------------------
(* A plan live on a day was the live plan on every day before.             *)
LEMMA LiveBefore ==
    ASSUME NEW usr \in UserRow, NEW d \in Nat, NEW e \in Nat, d <= e
    PROVE  LivePlan(usr, e) \in {LivePlan(usr, d), "free"}
BY BillingAssumption DEF LivePlan, UserRow, Day, TimedPlans

LEMMA RankFacts ==
    /\ PLAN_RANK["free"] = 0 /\ PLAN_RANK["monthly"] = 1
    /\ PLAN_RANK["yearly"] = 2 /\ PLAN_RANK["lifetime"] = 3
BY DEF PLAN_RANK

LEMMA OnlyActivationActivates ==
    ASSUME IInv, Next, NEW s \in Orders, activations'[s] # activations[s]
    PROVE  \E w \in Workers : CommitActivation(w) /\ txn[w].sub = s
<1> USE StatusFacts
<1>1. activations \in [SubIds -> Nat] BY DEF IInv, TypeOK
<1>2. ASSUME NEW w \in Workers, CommitGrant(w) PROVE FALSE
  <2>1. /\ activations' = [x \in SubIds |-> activations[x] + IF x = txn[w].sub THEN 1 ELSE 0]
        /\ txn[w].sub = Null \/ txn[w].sub \in Grants
    BY <1>2, GrantWrites
  <2>2. s # txn[w].sub BY <2>1, BillingAssumption
  <2>3. QED BY <1>1, <2>1, <2>2
<1>3. ASSUME NEW w \in Workers, CommitRedeem(w) PROVE FALSE
  <2>1. activations' = [activations EXCEPT ![txn[w].sub] = 1] /\ txn[w].sub \in Coupons
    BY <1>3, RedeemWrites
  <2>2. s # txn[w].sub BY <2>1, BillingAssumption
  <2>3. QED BY <1>1, <2>1, <2>2
<1>4. ASSUME NEW w \in Workers, CommitActivation(w) PROVE txn[w].sub = s
  <2>1. activations' = [activations EXCEPT ![txn[w].sub] = 1] BY <1>4, ActivationWrites
  <2>2. QED BY <1>1, <2>1
<1>5. ASSUME UNCHANGED activations PROVE FALSE BY <1>5
<1>6. QED
  BY <1>2, <1>3, <1>4, <1>5, StepCases, InsertWrites, RevokeWrites, PartialRefundWrites,
     RestartWrites, Zenon DEF Writes, history, Cancel

LEMMA RaisesPlan ==
    ASSUME IInv, RowsInv, NEW w \in Workers, CommitActivation(w)
    PROVE  LET old  == users[txn[w].user]
               new  == users'[txn[w].user]
               live == LivePlan(old, now)
           IN /\ PLAN_RANK[new.plan] >= PLAN_RANK[live]
              /\ live # "free" => \/ new.planExp = Null
                                  \/ old.planExp # Null /\ new.planExp >= old.planExp
              /\ old.trialExp # Null /\ old.trialExp > now =>
                    new.planExp = Null \/ new.planExp > old.trialExp
<1> USE StatusFacts, RankFacts
<1> DEFINE old  == users[txn[w].user]
           new  == users'[txn[w].user]
           t    == txn[w]
           live == LivePlan(old, now)
<1>1. /\ t.user \in Users /\ t.plan \in PaidPlans /\ t.at \in Nat /\ t.at <= now
      /\ t.live = LivePlan(old, t.at) /\ t.exp = StackedExpiry(old, t.plan, t.at)
  BY ActivationWrites
<1>2. old \in UserRow /\ now \in Nat /\ users \in [Users -> UserRow] BY <1>1 DEF IInv, TypeOK
<1>3. live \in {t.live, "free"} BY <1>1, <1>2, LiveBefore
<1>4. t.live \in PaidPlans \cup {"free"} /\ t.live \in {old.plan, "free"}
  BY <1>1, <1>2, LivePlanType DEF LivePlan
<1>5. old.trialExp # Null /\ old.trialExp > now => old.plan = "free"
  <2>1. old.plan # "free" => old.trialExp = Null \/ old.trialExp <= now
    BY <1>1 DEF RowsInv, TrialsEnded, TrialOver
  <2>2. old.trialExp # Null => old.trialExp \in Nat BY <1>2 DEF UserRow, Day
  <2>3. QED BY <1>2, <2>1, <2>2
<1>6. CASE /\ PLAN_RANK[t.plan] >= PLAN_RANK[t.live]
           /\ users' = [users EXCEPT ![t.user].plan = t.plan, ![t.user].planExp = t.exp,
                                     ![t.user].trialExp = EndTrial(@, t.at)]
  <2>1. new.plan = t.plan /\ new.planExp = t.exp BY <1>1, <1>2, <1>6 DEF UserRow
  <2>2. PLAN_RANK[t.plan] >= PLAN_RANK[live] BY <1>1, <1>3, <1>4, <1>6
  <2>3. ASSUME t.plan # "lifetime" PROVE t.live # "lifetime"
    BY <1>1, <1>6, <2>3
  <2>4. t.plan # "lifetime" => PLAN_DURATIONS[t.plan] \in Nat \ {0}
    BY <1>1, BillingAssumption DEF PLAN_DURATIONS
  <2>5. t.plan = "lifetime" => t.exp = Null BY <1>1 DEF StackedExpiry
  <2>6. ASSUME t.plan # "lifetime", live # "free"
        PROVE  old.planExp # Null /\ t.exp >= old.planExp
    <3>1. t.live \in TimedPlans /\ t.live = LivePlan(old, t.at)
      BY <1>1, <1>3, <1>4, <2>3, <2>6 DEF TimedPlans
    <3>2. old.planExp \in Nat BY <1>2, <3>1 DEF LivePlan, UserRow, Day, TimedPlans
    <3>3. t.exp = old.planExp + PLAN_DURATIONS[t.plan] BY <1>1, <2>6, <3>1 DEF StackedExpiry
    <3>4. QED BY <2>4, <2>6, <3>2, <3>3
  <2>7. ASSUME t.plan # "lifetime", old.trialExp # Null, old.trialExp > now
        PROVE  t.exp > old.trialExp
    <3>1. old.trialExp \in Nat BY <1>2, <2>7 DEF UserRow, Day
    <3>2. LivePlan(old, t.at) = "free" BY <1>1, <1>4, <1>5, <2>7
    <3>3. t.exp = old.trialExp + PLAN_DURATIONS[t.plan]
      BY <1>1, <1>2, <2>7, <3>1, <3>2 DEF StackedExpiry, TimedPlans
    <3>4. QED BY <2>4, <2>7, <3>1, <3>3
  <2>8. QED BY <2>1, <2>2, <2>5, <2>6, <2>7
<1>7. CASE PLAN_RANK[t.plan] < PLAN_RANK[t.live] /\ UNCHANGED users
  <2>1. t.live # "free" BY <1>1, <1>7
  <2>2. old.plan = t.live BY <1>4, <2>1
  <2>3. PLAN_RANK[old.plan] >= PLAN_RANK[live] BY <1>3, <1>4, <2>2
  <2>4. old.trialExp # Null /\ old.trialExp > now => FALSE BY <1>5, <2>1, <2>2
  <2>5. old.planExp # Null => old.planExp \in Nat BY <1>2 DEF UserRow, Day
  <2>6. new = old BY <1>7
  <2>7. QED BY <2>3, <2>4, <2>5, <2>6
<1>8. QED BY <1>6, <1>7, ActivationWrites

(* The commit of an activation never lowers the plan its user holds at that *)
(* moment, never brings its end forward and never wastes a running trial,   *)
(* whatever else committed while it ran (activate_subscription).            *)
THEOREM ActivationsRaise == Spec => ActivationNeverLowers
<1> DEFINE Raises(s) ==
      LET old  == users[subs[s].user]
          new  == users'[subs[s].user]
          live == LivePlan(old, now)
      IN /\ PLAN_RANK[new.plan] >= PLAN_RANK[live]
         /\ live # "free" => \/ new.planExp = Null
                             \/ old.planExp # Null /\ new.planExp >= old.planExp
         /\ old.trialExp # Null /\ old.trialExp > now =>
               new.planExp = Null \/ new.planExp > old.trialExp
<1>1. ASSUME IInv, RowsInv, Next, NEW s \in Orders, activations'[s] # activations[s]
      PROVE  Raises(s)
  <2>1. PICK w \in Workers : CommitActivation(w) /\ txn[w].sub = s
    BY <1>1, OnlyActivationActivates
  <2>2. subs[s].user = txn[w].user BY <1>1, <2>1, ActivationWrites
  <2>3. QED BY <1>1, <2>1, <2>2, RaisesPlan
<1>2. IInv /\ RowsInv /\ [Next]_vars =>
        [\A s \in Orders : activations'[s] # activations[s] => Raises(s)]_vars
  BY <1>1
<1>3. QED BY <1>2, Inductive, RowsKnown, PTL DEF Spec, ActivationNeverLowers

----------------------------------------------------------------------------
(* Lock waits                                                              *)

(* Whoever waits in a circle waits for a grant that revokes other rows: it *)
(* holds the user and wants subscriptions, all others do the reverse.      *)
LEMMA WaitingOrder ==
    ASSUME IInv, NEW w \in Workers, InLockCycle(w)
    PROVE  \E g \in Workers : InLockCycle(g) /\ txn[g].pc = "grant" /\ txn[g].to = "revoked"
<1>1. PICK S \in SUBSET Workers :
         /\ w \in S
         /\ \A x \in S : WaitsFor(x) \cap S # {} /\ \E y \in S : x \in WaitsFor(y)
  BY DEF InLockCycle
<1>2. ASSUME NEW x \in S, txn[x].pc = "grant" PROVE txn[x].to = "revoked"
  BY <1>1, <1>2 DEF WaitsFor, Wants, GrantVictims
<1>3. ASSUME NEW x \in S PROVE txn[x].pc \in {"lockUser", "revoke", "redeem", "grant"}
  <2>1. Wants(x) # {} BY <1>1 DEF WaitsFor
  <2>2. ASSUME txn[x].pc = "claim" PROVE FALSE
    <3>1. txn[x].locks = {} BY <2>2 DEF IInv, TxnInv, HoldsInv
    <3>2. QED BY <1>1, <3>1 DEF WaitsFor
  <2>3. QED BY <2>1, <2>2 DEF Wants
<1>4. \A x \in S : x \in Workers /\ InLockCycle(x) BY <1>1 DEF InLockCycle
<1>5. CASE txn[w].pc = "grant" BY <1>1, <1>2, <1>4, <1>5
<1>6. CASE txn[w].pc \in {"lockUser", "revoke", "redeem"}
  <2>1. Wants(w) = {txn[w].user} BY <1>6 DEF Wants
  <2>2. txn[w].user \in Users
    BY <1>6 DEF IInv, TxnInv, ClaimInv, RevokeInv, RedeemInv
  <2>3. PICK y \in S : y \in WaitsFor(w) BY <1>1
  <2>4. txn[w].user \in txn[y].locks BY <2>1, <2>3 DEF WaitsFor
  <2>5. txn[y].pc \in {"activate", "grant"} BY <2>2, <2>4 DEF IInv, TxnInv, HoldsInv
  <2>6. txn[y].pc = "grant" BY <1>3, <2>5
  <2>7. QED BY <1>2, <1>4, <2>6
<1>7. QED BY <1>1, <1>3, <1>5, <1>6

(* Whatever else is asked for, a circle of waiting requests contains an     *)
(* admin's grant that takes subscriptions back: it alone locks the user     *)
(* first (grant_admin_subscription, revoke_user_subscriptions).             *)
THEOREM DeadlocksNeedRevocation ==
    Spec => [](\A w \in Workers : InLockCycle(w) =>
                 \E g \in Workers : InLockCycle(g) /\ txn[g].pc = "grant" /\ txn[g].to = "revoked")
<1>1. IInv => \A w \in Workers : InLockCycle(w) =>
                \E g \in Workers : InLockCycle(g) /\ txn[g].pc = "grant" /\ txn[g].to = "revoked"
  BY WaitingOrder
<1>2. QED BY <1>1, Inductive, PTL

(* An admin who only gives lifetime plans revokes nothing: nobody can hold *)
(* a higher plan.                                                          *)
RevokesNothing ==
    \A w \in Workers : txn[w].pc = "grant" =>
        txn[w].plan = "lifetime" /\ txn[w].to = "none"

LEMMA OnlyLifetimeGranted ==
    ASSUME OnlyLifetime, IInv, RevokesNothing, [Next]_vars
    PROVE  RevokesNothing'
<1>1. /\ txn \in [Workers -> Txn] /\ users \in [Users -> UserRow] /\ now \in Nat /\ TypeOK
  BY DEF IInv, TypeOK
<1>2. CASE UNCHANGED vars BY <1>2 DEF vars, RevokesNothing
<1>3. ASSUME Next, NEW v \in Workers, txn'[v].pc = "grant"
      PROVE  txn'[v].plan = "lifetime" /\ txn'[v].to = "none"
  <2>1. CASE txn'[v] = txn[v] BY <1>3, <2>1 DEF RevokesNothing
  <2>2. CASE LockUser(v) BY <1>1, <1>3, <2>2 DEF LockUser, Txn
  <2>3. CASE ReadBest(v)
    <3>1. PICK p, e : Takes(v, p, e) BY <2>3, BestTaken
    <3>2. txn'[v] = [txn[v] EXCEPT !.pc = "revoke", !.plan = p, !.exp = e] /\ txn[v] \in Txn
      BY <1>1, <3>1 DEF Takes
    <3>3. txn'[v].pc = "revoke" BY <3>2 DEF Txn
    <3>4. QED BY <1>3, <3>3
  <2>4. CASE \E o \in Orders, kind \in Reversals : BeginRevoke(v, o, kind)
    BY <1>1, <1>3, <2>4 DEF BeginRevoke, NoTxn
  <2>5. ASSUME NEW g \in Grants \cup {Null}, NEW u \in Users, NEW p \in AdminPlans,
               NEW d \in GrantDays, NEW allow \in BOOLEAN, BeginGrant(v, g, u, p, d, allow)
        PROVE  txn'[v].plan = "lifetime" /\ txn'[v].to = "none"
    <3>1. p = "lifetime" BY DEF OnlyLifetime
    <3>2. LivePlan(users[u], now) \in PaidPlans \cup {"free"} BY <1>1, LivePlanType
    <3>3. ~(PLAN_RANK[p] < PLAN_RANK[LivePlan(users[u], now)])
      BY <3>1, <3>2, RankFacts, StatusFacts
    <3>4. txn' = [txn EXCEPT ![v] =
                 [NoTxn EXCEPT !.pc = "grant", !.sub = g, !.user = u, !.plan = p,
                               !.exp = IF p \in TimedPlans THEN now + d ELSE Null,
                               !.to = "none", !.at = now, !.locks = {u}]]
      BY <2>5, <3>1, <3>3 DEF BeginGrant
    <3>5. QED BY <1>1, <3>1, <3>4 DEF NoTxn
  <2>6. QED BY <1>1, <1>3, <2>1, <2>2, <2>3, <2>4, <2>5, TxnSteps DEF Prepares, Settled
<1>4. QED BY <1>2, <1>3 DEF RevokesNothing

(* Where the admin revokes nothing, requests never wait for each other in a *)
(* circle: all of them lock a subscription before the user it belongs to    *)
(* (activate_subscription, revoke_subscription, redeem_coupon).             *)
THEOREM NoDeadlock == OnlyLifetime /\ Spec => []NoLockCycle
<1> SUFFICES ASSUME OnlyLifetime PROVE Spec => []NoLockCycle
  OBVIOUS
<1>1. Init => RevokesNothing BY DEF Init, RevokesNothing, NoTxn
<1>2. IInv /\ RevokesNothing /\ [Next]_vars => RevokesNothing'
  BY OnlyLifetimeGranted
<1>3. IInv /\ RevokesNothing => NoLockCycle
  BY WaitingOrder DEF NoLockCycle, RevokesNothing
<1>4. QED BY <1>1, <1>2, <1>3, Inductive, PTL DEF Spec

----------------------------------------------------------------------------
(* Access, where nothing is taken back                                     *)

NothingReversed == \A w \in Workers : txn[w].pc \notin {"readBest", "revoke"}
NothingGranted  == \A w \in Workers : txn[w].pc # "grant"

LEMMA KindsKept ==
    ASSUME TypeOK, Next
    PROVE  /\ NoReversals /\ NothingReversed => NothingReversed'
           /\ NoGrants /\ NothingGranted => NothingGranted'
<1>1. txn \in [Workers -> Txn] BY DEF TypeOK
<1>2. ASSUME NEW v \in Workers
      PROVE  /\ txn'[v].pc \in {"readBest", "revoke"} =>
                  \/ txn[v].pc \in {"readBest", "revoke"} \/ Reversals # {}
             /\ txn'[v].pc = "grant" => txn[v].pc = "grant" \/ AdminPlans # {}
  <2>1. CASE LockUser(v) BY <1>1, <2>1 DEF LockUser, Txn
  <2>2. CASE ReadBest(v)
    <3>1. PICK p, e : Takes(v, p, e) BY <2>2, BestTaken
    <3>2. txn'[v] = [txn[v] EXCEPT !.pc = "revoke", !.plan = p, !.exp = e] /\ txn[v] \in Txn
      BY <1>1, <3>1 DEF Takes
    <3>3. txn'[v].pc = "revoke" BY <3>2 DEF Txn
    <3>4. txn[v].pc = "readBest" BY <2>2 DEF ReadBest
    <3>5. QED BY <3>3, <3>4
  <2>3. CASE \E o \in Orders, kind \in Reversals : BeginRevoke(v, o, kind)
    BY <1>1, <2>3 DEF BeginRevoke, NoTxn
  <2>4. CASE \E g \in Grants \cup {Null}, u \in Users, p \in AdminPlans, d \in GrantDays,
                allow \in BOOLEAN : BeginGrant(v, g, u, p, d, allow)
    BY <1>1, <2>4 DEF BeginGrant, NoTxn
  <2>5. QED BY <2>1, <2>2, <2>3, <2>4, TxnSteps DEF Prepares, Settled
<1>3. QED BY <1>2 DEF NothingReversed, NothingGranted, NoReversals, NoGrants

(* How a row in force ends before its time, where nothing is reversed.     *)
LEMMA RowStays ==
    ASSUME IInv, NothingReversed, Next, NEW s \in SubIds, InForce(s, now)
    PROVE  \/ subs'[s].status \in Held /\ SameTerms(s)
           \/ \E w \in Workers : CommitGrant(w) /\ s \in GrantVictims(txn[w])
<1>1. /\ subs \in [SubIds -> SubRow] /\ subs[s].status \in Held /\ now \in Nat
      /\ subs[s].expires = Null \/ subs[s].expires > now
  BY DEF IInv, TypeOK, InForce
<1>2. ~Stale(s)
  <2>1. subs[s].expires # Null => subs[s].expires \in Nat BY <1>1 DEF SubRow, Day
  <2>2. QED BY <1>1, <2>1 DEF Stale
<1>3. \A w \in Workers : ~CommitRevoke(w) BY GivesPc DEF NothingReversed
<1>4. QED BY <1>1, <1>2, <1>3, HeldEnds

(* What gives a plan to a user puts a row of the same terms in force.      *)
LEMMA GivenRowHeld ==
    ASSUME IInv, NEW w \in Workers, Gives(w), txn[w].plan # "free"
    PROVE  /\ txn[w].sub \in SubIds /\ subs'[txn[w].sub].status \in Held
           /\ GivenRow(w, txn[w].sub)
<1> USE StatusFacts DEF Held
<1>1. subs \in [SubIds -> SubRow] BY DEF IInv, TypeOK
<1>2. CASE CommitActivation(w)
  <2>1. /\ subs' = [subs EXCEPT ![txn[w].sub].status = "active", ![txn[w].sub].expires = txn[w].exp]
        /\ subs[txn[w].sub].user = txn[w].user /\ subs[txn[w].sub].plan = txn[w].plan
        /\ txn[w].user \in Users /\ txn[w].sub \in SubIds
    BY <1>2, ActivationWrites
  <2>2. txn[w].pc = "activate" BY <1>2, GivesPc
  <2>3. QED BY <1>1, <1>2, <2>1, <2>2 DEF GivenRow, Gives, GivenEnd, SubRow
<1>3. CASE CommitGrant(w)
  <2>1. /\ subs' = [x \in SubIds |->
                   IF x \in GrantVictims(txn[w]) THEN [subs[x] EXCEPT !.status = "revoked"]
                   ELSE IF x = txn[w].sub THEN GrantRow(txn[w]) ELSE subs[x]]
        /\ txn[w].pc = "grant" /\ txn[w].user \in Users
        /\ txn[w].sub \in SubIds /\ subs[txn[w].sub].status = "none"
    BY <1>3, GrantWrites
  <2>2. txn[w].sub \notin GrantVictims(txn[w]) BY <2>1 DEF GrantVictims
  <2>3. subs'[txn[w].sub] = GrantRow(txn[w]) BY <2>1, <2>2
  <2>4. /\ subs'[txn[w].sub].status = "active" /\ subs'[txn[w].sub].user = txn[w].user
        /\ subs'[txn[w].sub].plan = txn[w].plan /\ subs'[txn[w].sub].expires = txn[w].exp
    BY <2>3 DEF GrantRow, NoSub
  <2>5. QED BY <1>3, <2>1, <2>4 DEF GivenRow, Gives, GivenEnd
<1>4. CASE CommitRedeem(w)
  <2>1. /\ subs' = [subs EXCEPT ![txn[w].sub] = [NoSub EXCEPT !.status = "active",
                                     !.user = txn[w].user, !.plan = txn[w].plan]]
        /\ txn[w].pc = "redeem" /\ txn[w].user \in Users /\ txn[w].sub \in SubIds
    BY <1>4, RedeemWrites
  <2>2. QED BY <1>1, <1>4, <2>1 DEF GivenRow, Gives, GivenEnd, NoSub
<1>5. QED BY <1>2, <1>3, <1>4 DEF Gives

(* While the one request reads or writes a reversal, every row held stays.  *)
LEMMA HeldStays ==
    ASSUME IInv, OneWorker, Next, NEW v \in Workers,
           txn[v].pc \in {"readBest", "revoke"}, txn'[v] = txn[v],
           NEW s \in SubIds, subs[s].status \in Held
    PROVE  subs'[s].status \in Held /\ SameTerms(s)
<1>1. NoTxn.pc = "idle" /\ txn \in [Workers -> Txn] BY DEF NoTxn, IInv, TypeOK
<1>2. ~Restart BY <1>1, RestartWrites
<1>3. \A w \in Workers : ~CommitGrant(w) BY GivesPc DEF OneWorker
<1>4. ASSUME NEW w \in Workers, CommitRevoke(w) PROVE FALSE
  <2>1. w = v BY DEF OneWorker
  <2>2. txn' = [txn EXCEPT ![v] = NoTxn] BY <1>4, <2>1, RevokeWrites
  <2>3. QED BY <1>1, <2>2
<1>5. QED BY <1>2, <1>3, <1>4, HeldEnds

LEMMA BestStillHeldInv ==
    ASSUME IInv, OneWorker, BestStillHeld, Next
    PROVE  BestStillHeld'
<1>1. txn \in [Workers -> Txn] BY DEF IInv, TypeOK
<1>2. SUFFICES ASSUME NEW v \in Workers, txn'[v].pc \in {"readBest", "revoke"}
      PROVE  /\ subs'[txn'[v].sub].user = txn'[v].user
             /\ txn'[v].pc = "revoke" /\ txn'[v].plan # "free" =>
                  \E b \in SubIds \ {txn'[v].sub} :
                      /\ subs'[b].user = txn'[v].user /\ subs'[b].status \in Held
                      /\ subs'[b].plan = txn'[v].plan /\ subs'[b].expires = txn'[v].exp
  BY DEF BestStillHeld
<1>3. CASE txn'[v] = txn[v]
  <2>1. /\ txn[v].sub \in SubIds /\ subs[txn[v].sub].status # "none"
        /\ subs[txn[v].sub].user = txn[v].user
    BY <1>2, <1>3, StatusFacts DEF BestStillHeld, IInv, TxnInv, RevokeInv, Claimable, Held
  <2>2. subs'[txn[v].sub].user = txn[v].user BY <2>1, OwnerKept
  <2>3. ASSUME txn[v].pc = "revoke", txn[v].plan # "free"
        PROVE  \E b \in SubIds \ {txn[v].sub} :
                   /\ subs'[b].user = txn[v].user /\ subs'[b].status \in Held
                   /\ subs'[b].plan = txn[v].plan /\ subs'[b].expires = txn[v].exp
    <3>1. PICK b \in SubIds \ {txn[v].sub} :
              /\ subs[b].user = txn[v].user /\ subs[b].status \in Held
              /\ subs[b].plan = txn[v].plan /\ subs[b].expires = txn[v].exp
      BY <2>3 DEF BestStillHeld
    <3>2. subs'[b].status \in Held /\ SameTerms(b) BY <1>2, <1>3, <3>1, HeldStays
    <3>3. QED BY <3>1, <3>2 DEF SameTerms
  <2>4. QED BY <1>3, <2>2, <2>3
<1>4. CASE Settled(v) BY <1>2, <1>4 DEF Settled
<1>5. CASE LockUser(v) BY <1>1, <1>2, <1>5 DEF LockUser, Txn
<1>6. CASE ReadBest(v)
  <2>1. /\ txn[v] \in Txn /\ txn[v].pc = "readBest" /\ subs' = subs
        /\ subs[txn[v].sub].user = txn[v].user
    BY <1>1, <1>6, BestRead DEF ReadBest, BestStillHeld
  <2>2. CASE txn' = [txn EXCEPT ![v].pc = "revoke", ![v].plan = "free", ![v].exp = Null]
    <3>1. txn'[v].plan = "free" /\ txn'[v].sub = txn[v].sub /\ txn'[v].user = txn[v].user
      BY <1>1, <2>1, <2>2 DEF Txn
    <3>2. QED BY <2>1, <3>1
  <2>3. ASSUME NEW b \in SubIds, BestOf(v, b)
        PROVE  /\ subs'[txn'[v].sub].user = txn'[v].user
               /\ \E x \in SubIds \ {txn'[v].sub} :
                      /\ subs'[x].user = txn'[v].user /\ subs'[x].status \in Held
                      /\ subs'[x].plan = txn'[v].plan /\ subs'[x].expires = txn'[v].exp
    <3>1. /\ txn'[v].plan = subs[b].plan /\ txn'[v].exp = subs[b].expires
          /\ txn'[v].sub = txn[v].sub /\ txn'[v].user = txn[v].user
      BY <1>1, <2>1, <2>3 DEF BestOf, Txn
    <3>2. b # txn[v].sub /\ subs[b].user = txn[v].user /\ subs[b].status \in Held
      BY <2>3 DEF BestOf, StillInForce, InForceOf, InForce
    <3>3. QED BY <2>1, <3>1, <3>2
  <2>4. QED BY <1>6, <2>2, <2>3, BestRead
<1>7. ASSUME NEW o \in Orders, NEW kind \in Reversals, BeginRevoke(v, o, kind)
      PROVE  /\ subs'[txn'[v].sub].user = txn'[v].user
             /\ txn'[v].pc = "readBest"
  BY <1>1, <1>7 DEF BeginRevoke, NoTxn
<1>8. CASE \E g \in Grants \cup {Null}, u \in Users, p \in AdminPlans, d \in GrantDays,
              allow \in BOOLEAN : BeginGrant(v, g, u, p, d, allow)
  BY <1>1, <1>2, <1>8 DEF BeginGrant, NoTxn
<1>9. QED BY <1>3, <1>4, <1>5, <1>6, <1>7, <1>8, TxnSteps DEF Prepares, IInv

(* A reversal leaves its user what is still held.                          *)
LEMMA TakenBackHeld ==
    ASSUME IInv, BestStillHeld, NEW w \in Workers, CommitRevoke(w), txn[w].plan # "free"
    PROVE  \E b \in SubIds :
               /\ subs'[b].user = txn[w].user /\ subs'[b].status \in Held
               /\ subs'[b].plan = txn[w].plan /\ subs'[b].expires = txn[w].exp
<1>1. /\ subs \in [SubIds -> SubRow] /\ txn[w].pc = "revoke"
      /\ subs' = [subs EXCEPT ![txn[w].sub].status = txn[w].to,
                              ![txn[w].sub].refunded = IF txn[w].to = "refunded" THEN 2 ELSE @]
  BY RevokeWrites DEF IInv, TypeOK
<1>2. PICK b \in SubIds \ {txn[w].sub} :
         /\ subs[b].user = txn[w].user /\ subs[b].status \in Held
         /\ subs[b].plan = txn[w].plan /\ subs[b].expires = txn[w].exp
  BY <1>1 DEF BestStillHeld
<1>3. subs'[b] = subs[b] BY <1>1, <1>2
<1>4. QED BY <1>2, <1>3

LEMMA BackedInv ==
    ASSUME IInv, IInv', RowsInv, RowsInv', BackedAccess, Next,
           NothingReversed \/ (OneWorker /\ BestStillHeld)
    PROVE  BackedAccess'
<1> USE StatusFacts
<1>1. /\ users \in [Users -> UserRow] /\ now \in Nat /\ now' \in Nat /\ now' >= now
      /\ users' \in [Users -> UserRow]
  BY ReadBeforeInv DEF IInv, TypeOK, RowsInv
<1>2. SUFFICES ASSUME NEW u \in Users, LivePlan(users[u], now)' # "free"
               PROVE  \E s \in SubIds :
                         /\ subs'[s].user = u /\ InForce(s, now)'
                         /\ subs'[s].plan = users'[u].plan /\ subs'[s].expires = users'[u].planExp
  BY DEF BackedAccess, InForceOf
<1>3. /\ users'[u].plan # "free" /\ users'[u] \in UserRow
      /\ users'[u].planExp = Null \/ users'[u].planExp > now'
  <2>1. Ends(users'[u].plan, users'[u].planExp) BY DEF RowsInv, EndsKnown
  <2>2. users'[u] \in UserRow BY <1>1
  <2>3. QED BY <1>2, <2>1, <2>2 DEF LivePlan, Ends, TimedPlans
<1>4. ASSUME NEW w \in Workers, CommitRevoke(w), txn[w].user = u,
             users'[u].plan = txn[w].plan, users'[u].planExp = txn[w].exp
      PROVE  \E x \in SubIds :
                /\ subs'[x].user = u /\ InForce(x, now)'
                /\ subs'[x].plan = users'[u].plan /\ subs'[x].expires = users'[u].planExp
  <2>1. BestStillHeld /\ txn[w].plan # "free" BY <1>3, <1>4, GivesPc DEF NothingReversed
  <2>2. PICK b \in SubIds :
           /\ subs'[b].user = txn[w].user /\ subs'[b].status \in Held
           /\ subs'[b].plan = txn[w].plan /\ subs'[b].expires = txn[w].exp
    BY <1>4, <2>1, TakenBackHeld
  <2>3. InForce(b, now)' BY <1>3, <1>4, <2>2 DEF InForce
  <2>4. QED BY <1>4, <2>2, <2>3
<1>5. CASE users'[u] = users[u]
  <2>1. LivePlan(users[u], now) # "free" BY <1>1, <1>2, <1>5, LiveBefore
  <2>2. PICK s \in SubIds : /\ subs[s].user = u /\ InForce(s, now)
                            /\ subs[s].plan = users[u].plan /\ subs[s].expires = users[u].planExp
    BY <2>1 DEF BackedAccess, InForceOf
  <2>3. ASSUME NEW w \in Workers, CommitGrant(w), s \in GrantVictims(txn[w])
        PROVE  users'[u].plan = txn[w].plan /\ txn[w].plan # "free" /\ txn[w].pc = "grant"
               /\ users'[u].planExp = txn[w].exp /\ txn[w].user = u
    <3>1. txn[w].user = u BY <2>2, <2>3 DEF GrantVictims
    <3>2. users' = [users EXCEPT ![txn[w].user].plan = txn[w].plan,
                               ![txn[w].user].planExp = txn[w].exp,
                               ![txn[w].user].trialExp = EndTrial(@, txn[w].at)]
      BY <2>3, GrantWrites
    <3>3. users'[u].plan = txn[w].plan /\ users'[u].planExp = txn[w].exp
      BY <1>1, <3>1, <3>2 DEF UserRow
    <3>4. QED BY <1>3, <2>3, <3>1, <3>3, GivesPc
  <2>4. ASSUME NEW w \in Workers, CommitGrant(w), s \in GrantVictims(txn[w])
        PROVE  \E x \in SubIds :
                  /\ subs'[x].user = u /\ InForce(x, now)'
                  /\ subs'[x].plan = users'[u].plan /\ subs'[x].expires = users'[u].planExp
    <3>1. Gives(w) /\ txn[w].plan # "free" BY <2>3, <2>4 DEF Gives
    <3>2. /\ txn[w].sub \in SubIds /\ subs'[txn[w].sub].status \in Held
          /\ GivenRow(w, txn[w].sub)
      BY <3>1, GivenRowHeld
    <3>3. /\ subs'[txn[w].sub].user = u /\ subs'[txn[w].sub].plan = users'[u].plan
          /\ subs'[txn[w].sub].expires = users'[u].planExp
      BY <2>3, <2>4, <3>2 DEF GivenRow, GivenEnd
    <3>4. PICK x \in SubIds : x = txn[w].sub BY <3>2
    <3>5. InForce(x, now)' BY <1>3, <3>2, <3>3, <3>4 DEF InForce
    <3>6. QED BY <3>3, <3>4, <3>5
  <2>5. ASSUME NEW w \in Workers, CommitRevoke(w), txn[w].sub = s
        PROVE  \E x \in SubIds :
                  /\ subs'[x].user = u /\ InForce(x, now)'
                  /\ subs'[x].plan = users'[u].plan /\ subs'[x].expires = users'[u].planExp
    <3>1. txn[w].user = u
      BY <2>2, <2>5, GivesPc DEF BestStillHeld, NothingReversed
    <3>2. users' = [users EXCEPT ![txn[w].user].plan = txn[w].plan,
                                 ![txn[w].user].planExp = txn[w].exp]
      BY <2>5, RevokeWrites
    <3>3. users'[u].plan = txn[w].plan /\ users'[u].planExp = txn[w].exp
      BY <1>1, <3>1, <3>2 DEF UserRow
    <3>4. QED BY <1>4, <2>5, <3>1, <3>3
  <2>6. CASE subs'[s].status \in Held /\ SameTerms(s)
    <3>1. InForce(s, now)' BY <1>3, <1>5, <2>2, <2>6 DEF InForce, SameTerms
    <3>2. QED BY <1>5, <2>2, <2>6, <3>1 DEF SameTerms
  <2>7. subs[s].status \in Held /\ ~Stale(s)
    <3>1. subs[s].expires # Null => subs[s].expires \in Nat BY DEF IInv, TypeOK, SubRow, Day
    <3>2. QED BY <1>1, <2>2, <3>1 DEF Stale, InForce
  <2>8. QED BY <2>2, <2>4, <2>5, <2>6, <2>7, HeldEnds
<1>6. CASE users'[u] = [users[u] EXCEPT !.plan = "free", !.planExp = Null]
  BY <1>1, <1>3, <1>6 DEF UserRow
<1>7. ASSUME NEW w \in Workers, TakenBack(w, u)
      PROVE  \E x \in SubIds :
                /\ subs'[x].user = u /\ InForce(x, now)'
                /\ subs'[x].plan = users'[u].plan /\ subs'[x].expires = users'[u].planExp
  <2>1. users'[u].plan = txn[w].plan /\ users'[u].planExp = txn[w].exp
    BY <1>1, <1>7 DEF TakenBack, UserRow
  <2>2. QED BY <1>4, <1>7, <2>1 DEF TakenBack
<1>8. ASSUME NEW w \in Workers, Given(w, u)
      PROVE  \E s \in SubIds :
                /\ subs'[s].user = u /\ InForce(s, now)'
                /\ subs'[s].plan = users'[u].plan /\ subs'[s].expires = users'[u].planExp
  <2>1. /\ users'[u].plan = txn[w].plan /\ users'[u].planExp = GivenEnd(txn[w])
        /\ txn[w].user = u /\ Gives(w)
    BY <1>1, <1>8 DEF Given, UserRow
  <2>2. txn[w].plan # "free" BY <1>3, <2>1
  <2>3. /\ txn[w].sub \in SubIds /\ subs'[txn[w].sub].status \in Held
        /\ GivenRow(w, txn[w].sub)
    BY <2>1, <2>2, GivenRowHeld
  <2>4. PICK s \in SubIds : s = txn[w].sub BY <2>3
  <2>5. /\ subs'[s].user = u /\ subs'[s].plan = users'[u].plan
        /\ subs'[s].expires = users'[u].planExp
    BY <2>1, <2>3, <2>4 DEF GivenRow
  <2>6. InForce(s, now)' BY <1>3, <2>3, <2>4, <2>5 DEF InForce
  <2>7. QED BY <2>5, <2>6
<1>9. QED BY <1>5, <1>6, <1>7, <1>8, UserMoves

(* Where no payment is reversed, or requests are served one at a time, a    *)
(* paid plan in force is always the plan of a subscription in force with   *)
(* the same end, admin grants included (activate_subscription,             *)
(* revoke_subscription, grant_admin_subscription, redeem_coupon, sweep).   *)
THEOREM AccessIsBacked == (NoReversals \/ OneWorker) /\ Spec => []BackedAccess
<1>1. ASSUME NoReversals PROVE Spec => []BackedAccess
  <2> DEFINE Inv == NothingReversed /\ BackedAccess
  <2>1. Init => Inv
    BY DEF Init, NothingReversed, BackedAccess, NoTxn, LivePlan, TimedPlans
  <2>2. IInv /\ IInv' /\ RowsInv /\ RowsInv' /\ Inv /\ [Next]_vars => Inv'
    <3> SUFFICES ASSUME IInv, IInv', RowsInv, RowsInv', Inv, [Next]_vars PROVE Inv'
      OBVIOUS
    <3>1. CASE Next BY <1>1, <3>1, KindsKept, BackedInv DEF IInv
    <3>2. CASE UNCHANGED vars
      BY <3>2 DEF vars, NothingReversed, BackedAccess, InForceOf, InForce, LivePlan
    <3>3. QED BY <3>1, <3>2
  <2>3. QED BY <2>1, <2>2, Inductive, RowsKnown, PTL DEF Spec
<1>2. ASSUME OneWorker PROVE Spec => []BackedAccess
  <2> DEFINE Inv == BestStillHeld /\ BackedAccess
  <2>1. Init => Inv
    BY DEF Init, BestStillHeld, BackedAccess, NoTxn, LivePlan, TimedPlans
  <2>2. IInv /\ IInv' /\ RowsInv /\ RowsInv' /\ Inv /\ [Next]_vars => Inv'
    <3> SUFFICES ASSUME IInv, IInv', RowsInv, RowsInv', Inv, [Next]_vars PROVE Inv'
      OBVIOUS
    <3>1. CASE Next BY <1>2, <3>1, BestStillHeldInv, BackedInv
    <3>2. CASE UNCHANGED vars
      BY <3>2 DEF vars, BestStillHeld, BackedAccess, InForceOf, InForce, LivePlan
    <3>3. QED BY <3>1, <3>2
  <2>3. QED BY <2>1, <2>2, Inductive, RowsKnown, PTL DEF Spec
<1>3. QED BY <1>1, <1>2

----------------------------------------------------------------------------
(* A user who covers a row in force holds a live plan.                     *)
LEMMA CoveredLive ==
    ASSUME NEW usr \in UserRow, NEW row \in SubRow, NEW d \in Nat,
           row.plan \in PaidPlans, row.expires = Null \/ row.expires > d,
           Ends(usr.plan, usr.planExp), Covers(usr, row)
    PROVE  LivePlan(usr, d) = usr.plan
<1> USE StatusFacts, RankFacts
<1>1. PLAN_RANK[row.plan] >= 1 BY DEF PaidPlans
<1>2. usr.plan # "free" BY <1>1 DEF Covers, UserRow
<1>3. usr.plan \in TimedPlans => usr.planExp # Null /\ usr.planExp \in Nat
  BY DEF Ends, UserRow, Day
<1>4. row.expires # Null => row.expires \in Nat BY DEF SubRow, Day
<1>5. QED BY <1>2, <1>3, <1>4 DEF LivePlan, Covers, UserRow, TimedPlans

AppliedGiven == \A s \in applied : activations[s] > 0

LEMMA GivenOnce ==
    ASSUME IInv, NEW w \in Workers, Gives(w), txn[w].sub \in SubIds
    PROVE  /\ subs[txn[w].sub].status \notin Held /\ activations[txn[w].sub] = 0
           /\ activations' = [activations EXCEPT ![txn[w].sub] = 1]
           /\ applied' = applied \/ applied' = applied \cup {txn[w].sub}
<1> USE StatusFacts DEF Held, Claimable
<1>1. activations \in [SubIds -> Nat] BY DEF IInv, TypeOK
<1>2. CASE CommitActivation(w) BY <1>2, ActivationWrites
<1>3. CASE CommitRedeem(w) BY <1>3, RedeemWrites
<1>4. CASE CommitGrant(w)
  <2>1. /\ subs[txn[w].sub].status = "none" /\ activations[txn[w].sub] = 0
        /\ activations' = [s \in SubIds |-> activations[s] + IF s = txn[w].sub THEN 1 ELSE 0]
        /\ applied' = applied \cup ({txn[w].sub} \ {Null})
    BY <1>4, GrantWrites
  <2>2. activations' = [activations EXCEPT ![txn[w].sub] = 1]
    <3>1. \A s \in SubIds : activations'[s] = [activations EXCEPT ![txn[w].sub] = 1][s]
      BY <1>1, <2>1
    <3>2. QED BY <1>1, <2>1, <3>1
  <2>3. txn[w].sub # Null OBVIOUS
  <2>4. QED BY <2>1, <2>2, <2>3
<1>5. QED BY <1>2, <1>3, <1>4 DEF Gives

LEMMA AppliedMoves ==
    ASSUME IInv, Next, NEW s \in applied'
    PROVE  s \in applied \/ \E w \in Workers : Gives(w) /\ txn[w].sub = s
<1>1. ASSUME UNCHANGED history PROVE s \in applied BY <1>1 DEF history
<1>2. ASSUME NEW w \in Workers, CommitActivation(w) PROVE s \in applied \/ txn[w].sub = s
  BY <1>2, ActivationWrites
<1>3. ASSUME NEW w \in Workers, CommitGrant(w) PROVE s \in applied \/ txn[w].sub = s
  BY <1>3, GrantWrites
<1>4. ASSUME NEW w \in Workers, CommitRedeem(w) PROVE s \in applied \/ txn[w].sub = s
  BY <1>4, RedeemWrites
<1>5. ASSUME Writes,
             \A w \in Workers : ~CommitActivation(w) /\ ~CommitGrant(w) /\ ~CommitRedeem(w)
      PROVE  UNCHANGED history
  BY <1>5, InsertWrites, RevokeWrites, PartialRefundWrites, RestartWrites, Zenon
  DEF Writes, Cancel
<1>6. QED BY <1>1, <1>2, <1>3, <1>4, <1>5, StepCases DEF Gives

LEMMA AppliedGivenInv ==
    ASSUME IInv, AppliedGiven, Next
    PROVE  AppliedGiven'
<1>1. activations \in [SubIds -> Nat] /\ applied \subseteq SubIds BY DEF IInv, TypeOK
<1>2. ASSUME NEW w \in Workers, Gives(w), txn[w].sub \in SubIds PROVE AppliedGiven'
  BY <1>1, <1>2, GivenOnce DEF AppliedGiven
<1>3. ASSUME UNCHANGED history PROVE AppliedGiven' BY <1>3 DEF history, AppliedGiven
<1>4. ASSUME NEW w \in Workers, CommitGrant(w), txn[w].sub = Null PROVE AppliedGiven'
  <2>1. /\ activations' = [s \in SubIds |-> activations[s] + IF s = txn[w].sub THEN 1 ELSE 0]
        /\ applied' = applied \cup ({txn[w].sub} \ {Null})
    BY <1>4, GrantWrites
  <2>2. applied' = applied /\ \A s \in SubIds : activations'[s] = activations[s]
    BY <1>1, <1>4, <2>1, StatusFacts
  <2>3. QED BY <1>1, <2>2 DEF AppliedGiven
<1>5. ASSUME NEW w \in Workers, CommitActivation(w) \/ CommitGrant(w) \/ CommitRedeem(w)
      PROVE  AppliedGiven'
  <2>1. txn[w].sub \in SubIds \/ (CommitGrant(w) /\ txn[w].sub = Null)
    <3>1. CASE CommitActivation(w) BY <3>1, ActivationWrites
    <3>2. CASE CommitGrant(w) BY <3>2, GrantWrites
    <3>3. CASE CommitRedeem(w) BY <3>3, RedeemWrites
    <3>4. QED BY <1>5, <3>1, <3>2, <3>3
  <2>2. QED BY <1>2, <1>4, <1>5, <2>1 DEF Gives
<1>6. ASSUME Writes,
             \A w \in Workers : ~(CommitActivation(w) \/ CommitGrant(w) \/ CommitRedeem(w))
      PROVE  UNCHANGED history
  BY <1>6, InsertWrites, RevokeWrites, PartialRefundWrites, RestartWrites, Zenon
  DEF Writes, Cancel
<1>7. QED BY <1>3, <1>5, <1>6, StepCases

LEMMA AppliedCoveredInv ==
    ASSUME IInv, IInv', RowsInv, BestKnown, NothingGranted, AppliedGiven,
           AppliedCovered, Next
    PROVE  AppliedCovered'
<1> USE StatusFacts
<1>1. /\ users \in [Users -> UserRow] /\ subs \in [SubIds -> SubRow] /\ applied \subseteq SubIds
      /\ applied' \subseteq SubIds /\ now \in Nat /\ now' \in Nat /\ now' >= now
  BY ReadBeforeInv DEF IInv, TypeOK, RowsInv
<1>2. SUFFICES ASSUME NEW s \in applied', InForce(s, now)'
               PROVE  Covers(users'[subs'[s].user], subs'[s])
  BY DEF AppliedCovered
<1>3. s \in SubIds /\ subs'[s].status \in Held BY <1>1, <1>2 DEF InForce
<1>4. ASSUME NEW w \in Workers, GivenRow(w, s)
      PROVE  Covers(users'[subs'[s].user], subs'[s])
  <2>1. /\ Gives(w) /\ txn[w].sub = s /\ txn[w].user \in Users /\ subs'[s].user = txn[w].user
        /\ subs'[s].plan = txn[w].plan /\ subs'[s].expires = GivenEnd(txn[w])
    BY <1>4 DEF GivenRow
  <2>2. activations[s] = 0 BY <1>3, <2>1, GivenOnce
  <2>3. s \notin applied BY <2>2 DEF AppliedGiven
  <2>4. PICK u \in Users : u = txn[w].user BY <2>1
  <2>5. users'[u].plan = txn[w].plan /\ users'[u].planExp = GivenEnd(txn[w])
    <3>1. CASE CommitActivation(w)
      <4>1. \/ users' = [users EXCEPT ![txn[w].user].plan = txn[w].plan,
                                      ![txn[w].user].planExp = txn[w].exp,
                                      ![txn[w].user].trialExp = EndTrial(@, txn[w].at)]
            \/ applied' = applied
        BY <3>1, ActivationWrites
      <4>2. txn[w].pc = "activate" BY <3>1, GivesPc
      <4>3. QED BY <1>1, <1>2, <2>3, <2>4, <4>1, <4>2 DEF UserRow, GivenEnd
    <3>2. CASE CommitRedeem(w)
      <4>1. /\ users' = [users EXCEPT ![txn[w].user].plan = txn[w].plan,
                                      ![txn[w].user].planExp = Null,
                                      ![txn[w].user].trialExp = EndTrial(@, txn[w].at)]
            /\ txn[w].pc = "redeem"
        BY <3>2, RedeemWrites
      <4>2. QED BY <1>1, <2>4, <4>1 DEF UserRow, GivenEnd
    <3>3. CASE CommitGrant(w) BY <3>3, GivesPc DEF NothingGranted
    <3>4. QED BY <2>1, <3>1, <3>2, <3>3 DEF Gives
  <2>6. subs'[s].plan \in PaidPlans /\ subs' \in [SubIds -> SubRow]
    BY <1>3 DEF IInv, RowsSound, TypeOK, Held
  <2>7. PLAN_RANK[subs'[s].plan] >= PLAN_RANK[subs'[s].plan] BY <2>6, RankFacts
  <2>8. subs'[s].expires # Null => subs'[s].expires \in Nat BY <1>3, <2>6 DEF SubRow, Day
  <2>9. QED BY <2>1, <2>4, <2>5, <2>7, <2>8 DEF Covers
<1>5. CASE SameTerms(s)
  <2>1. s \in applied BY <1>3, <1>5, AppliedMoves, GivenOnce DEF SameTerms
  <2>2. /\ subs'[s].user = subs[s].user /\ subs'[s].plan = subs[s].plan
        /\ subs'[s].expires = subs[s].expires /\ subs[s].status \in Held
    BY <1>5 DEF SameTerms
  <2>3. subs[s].user \in Users /\ subs[s].plan \in PaidPlans
        /\ subs[s].expires \in Day /\ subs[s] \in SubRow
    BY <1>1, <1>3, <2>2 DEF IInv, RowsSound, SubRow, Held
  <2>4. subs[s].expires = Null \/ subs[s].expires > now
    BY <1>1, <1>2, <2>2, <2>3 DEF InForce, Day
  <2>5. InForce(s, now) BY <2>2, <2>4 DEF InForce
  <2>6. PICK u \in Users : u = subs[s].user BY <2>3
  <2>7. Covers(users[u], subs[s]) BY <2>1, <2>5, <2>6 DEF AppliedCovered
  <2>8. Ends(users[u].plan, users[u].planExp) BY DEF RowsInv, EndsKnown
  <2>9. LivePlan(users[u], now) = users[u].plan
    BY <1>1, <2>3, <2>4, <2>7, <2>8, CoveredLive
  <2>10. users[u].plan # "free" /\ users[u] \in UserRow
    BY <1>1, <2>3, <2>7, RankFacts DEF Covers
  <2>11. CASE users'[u] = users[u] BY <2>2, <2>6, <2>7, <2>11 DEF Covers
  <2>12. CASE Lapsed(u) BY <1>3, <2>5, <2>6, <2>12 DEF Lapsed, InForceOf
  <2>13. ASSUME NEW w \in Workers, TakenBack(w, u)
         PROVE  Covers(users'[subs'[s].user], subs'[s])
    <3>1. /\ txn[w].pc = "revoke" /\ txn[w].sub \in SubIds /\ txn[w].to \in {"refunded", "disputed"}
          /\ subs' = [subs EXCEPT ![txn[w].sub].status = txn[w].to,
                                 ![txn[w].sub].refunded =
                                    IF txn[w].to = "refunded" THEN 2 ELSE @]
      BY <2>13, RevokeWrites DEF TakenBack
    <3>2. s # txn[w].sub BY <1>1, <1>3, <3>1 DEF Held, SubRow
    <3>3. txn[w].at \in Nat /\ txn[w].at <= now
      BY DEF IInv, TypeOK, Txn, RowsInv, ReadBefore
    <3>4. subs[s].expires # Null => subs[s].expires \in Nat BY <2>3 DEF Day
    <3>5. InForce(s, txn[w].at) BY <1>1, <2>2, <2>4, <3>3, <3>4 DEF InForce
    <3>6. txn[w].user = u /\ users'[u].plan = txn[w].plan /\ users'[u].planExp = txn[w].exp
      BY <1>1, <2>13 DEF TakenBack, UserRow
    <3>7. Covers([plan |-> txn[w].plan, planExp |-> txn[w].exp], subs[s])
      BY <2>1, <2>6, <3>1, <3>2, <3>5, <3>6 DEF BestKnown
    <3>8. QED BY <2>2, <2>6, <3>6, <3>7 DEF Covers
  <2>14. ASSUME NEW w \in Workers, Given(w, u)
         PROVE  Covers(users'[subs'[s].user], subs'[s])
    <3>1. CASE CommitActivation(w)
      <4>1. txn[w].user = u BY <2>14 DEF Given
      <4>2. /\ PLAN_RANK[users'[u].plan] >= PLAN_RANK[users[u].plan]
            /\ \/ users'[u].planExp = Null
               \/ users[u].planExp # Null /\ users'[u].planExp >= users[u].planExp
        BY <2>9, <2>10, <3>1, <4>1, RaisesPlan
      <4>3. users'[u] \in UserRow BY DEF IInv, TypeOK
      <4>4. PLAN_RANK[users'[u].plan] >= PLAN_RANK[subs[s].plan]
        BY <2>3, <2>7, <2>10, <4>2, <4>3, RankFacts DEF Covers, UserRow
      <4>5. users'[u].planExp # Null =>
               subs[s].expires # Null /\ users'[u].planExp >= subs[s].expires
        BY <2>3, <2>7, <2>10, <4>2, <4>3 DEF Covers, UserRow, Day
      <4>6. QED BY <2>2, <2>6, <4>4, <4>5 DEF Covers
    <3>2. CASE CommitRedeem(w)
      <4>1. txn[w].pc = "redeem" /\ txn[w].plan = "lifetime" BY <3>2, RedeemWrites
      <4>2. users'[u].plan = "lifetime" /\ users'[u].planExp = Null
        BY <1>1, <2>14, <4>1 DEF Given, GivenEnd, UserRow
      <4>3. QED BY <2>2, <2>3, <2>6, <4>2, RankFacts DEF Covers
    <3>3. CASE CommitGrant(w) BY <3>3, GivesPc DEF NothingGranted
    <3>4. QED BY <2>14, <3>1, <3>2, <3>3 DEF Given, Gives
  <2>15. QED BY <2>11, <2>12, <2>13, <2>14, UserMoves
<1>6. QED BY <1>3, <1>4, <1>5, RowMoves DEF RowsInv

LEMMA CoveredKeeps ==
    ASSUME IInv, RowsInv, AppliedCovered
    PROVE  AppliedKeepsAccess
<1> SUFFICES ASSUME NEW s \in applied, InForce(s, now)
             PROVE  PLAN_RANK[LivePlan(users[subs[s].user], now)] >= PLAN_RANK[subs[s].plan]
  BY DEF AppliedKeepsAccess
<1>1. /\ s \in SubIds /\ subs[s].status \in Held /\ now \in Nat
      /\ users \in [Users -> UserRow] /\ subs[s] \in SubRow
      /\ subs[s].expires = Null \/ subs[s].expires > now
  BY DEF InForce, IInv, TypeOK
<1>2. subs[s].user \in Users /\ subs[s].plan \in PaidPlans
  BY <1>1, StatusFacts DEF IInv, RowsSound, SubRow, Held
<1>3. Covers(users[subs[s].user], subs[s]) BY DEF AppliedCovered
<1>4. Ends(users[subs[s].user].plan, users[subs[s].user].planExp)
  BY <1>2 DEF RowsInv, EndsKnown
<1>5. LivePlan(users[subs[s].user], now) = users[subs[s].user].plan
  BY <1>1, <1>2, <1>3, <1>4, CoveredLive
<1>6. QED BY <1>3, <1>5 DEF Covers

LEMMA CoveredUnreversed ==
    NoReversals /\ NoGrants /\ Spec => [](AppliedGiven /\ AppliedCovered)
<1> SUFFICES ASSUME NoReversals, NoGrants PROVE Spec => [](AppliedGiven /\ AppliedCovered)
  OBVIOUS
<1> DEFINE Inv == NothingReversed /\ NothingGranted /\ AppliedGiven /\ AppliedCovered
<1>1. Init => Inv
  BY DEF Init, NothingReversed, NothingGranted, AppliedGiven, AppliedCovered, NoTxn
<1>2. IInv /\ IInv' /\ RowsInv /\ Inv /\ [Next]_vars => Inv'
  <2> SUFFICES ASSUME IInv, IInv', RowsInv, Inv, [Next]_vars PROVE Inv'
    OBVIOUS
  <2>1. CASE Next
    <3>1. BestKnown BY DEF NothingReversed, BestKnown
    <3>2. QED BY <2>1, <3>1, KindsKept, AppliedGivenInv, AppliedCoveredInv DEF IInv
  <2>2. CASE UNCHANGED vars
    BY <2>2 DEF vars, NothingReversed, NothingGranted, AppliedGiven, AppliedCovered, InForce, Covers
  <2>3. QED BY <2>1, <2>2
<1>3. QED BY <1>1, <1>2, Inductive, RowsKnown, PTL DEF Spec

(* Where no payment is reversed and no admin grants, a subscription in      *)
(* force whose plan was given to its user gives it for as long as it runs,  *)
(* however purchases and coupons race (activate_subscription, redeem_coupon,*)
(* the sweep).                                                              *)
THEOREM AppliedAccessKept == NoReversals /\ NoGrants /\ Spec => []AppliedKeepsAccess
<1>1. IInv /\ RowsInv /\ AppliedGiven /\ AppliedCovered => AppliedKeepsAccess BY CoveredKeeps
<1>2. QED BY <1>1, CoveredUnreversed, Inductive, RowsKnown, PTL

----------------------------------------------------------------------------
(* Access, where one request at a time takes payments back                 *)

LEMMA CouponRows ==
    ASSUME IInv, CouponsLast, Next, NEW c \in Coupons
    PROVE  \/ subs'[c] = subs[c]
           \/ subs[c].status = "none" /\ \E w \in Workers : CommitRedeem(w) /\ txn[w].sub = c
           \/ \E w \in Workers : CommitGrant(w)
<1> USE StatusFacts
<1> DEFINE Goal == \/ subs'[c] = subs[c]
                   \/ subs[c].status = "none" /\ \E w \in Workers : CommitRedeem(w) /\ txn[w].sub = c
                   \/ \E w \in Workers : CommitGrant(w)
<1>1. subs \in [SubIds -> SubRow] /\ c \in SubIds /\ c \notin Orders
  BY BillingAssumption DEF IInv, TypeOK, SubIds
<1>2. ASSUME NEW w \in Workers, InsertOrder(w) PROVE Goal
  <2>1. txn[w].sub \in Orders BY <1>2 DEF InsertOrder, IInv, TxnInv, InsertInv
  <2>2. QED BY <1>1, <1>2, <2>1, InsertWrites
<1>3. ASSUME NEW w \in Workers, CommitActivation(w) PROVE Goal
  BY <1>1, <1>3, ActivationWrites
<1>4. ASSUME NEW w \in Workers, CommitRevoke(w) PROVE Goal
  BY <1>1, <1>4, RevokeWrites
<1>5. ASSUME NEW w \in Workers, CommitRedeem(w) PROVE Goal
  <2>1. /\ txn[w].sub \in SubIds /\ subs[txn[w].sub].status = "none"
        /\ subs' = [subs EXCEPT ![txn[w].sub] = [NoSub EXCEPT !.status = "active",
                                       !.user = txn[w].user, !.plan = txn[w].plan]]
    BY <1>5, RedeemWrites
  <2>2. CASE txn[w].sub = c BY <1>5, <2>1, <2>2
  <2>3. CASE txn[w].sub # c BY <1>1, <2>1, <2>3
  <2>4. QED BY <2>2, <2>3
<1>6. ASSUME NEW o \in Orders, RecordPartialRefund(o) PROVE Goal
  BY <1>1, <1>6, PartialRefundWrites
<1>7. ASSUME NEW u \in Users, Cancel(u) PROVE Goal
  <2>1. c \notin Cancellable(u) BY <1>1 DEF CouponsLast, Cancellable, InForceOf, InForce, Held
  <2>2. QED BY <1>1, <1>7, <2>1 DEF Cancel
<1>8. CASE Restart
  <2>1. ~Stale(c) BY <1>1 DEF CouponsLast, Stale, Held
  <2>2. QED BY <1>1, <1>8, <2>1, RestartWrites
<1>9. QED
  BY <1>2, <1>3, <1>4, <1>5, <1>6, <1>7, <1>8, StepCases, Zenon DEF Writes

LEMMA NobodyGrants ==
    ASSUME NothingGranted, NEW w \in Workers
    PROVE  ~CommitGrant(w)
BY GivesPc DEF NothingGranted

(* Whoever owns a redeemed coupon keeps it.                                *)
LEMMA OwnersStay ==
    ASSUME IInv, CouponsLast, NothingGranted, Next, NEW u \in Users, OwnsCoupon(u)
    PROVE  OwnsCoupon(u)'
<1>1. PICK c \in Coupons : subs[c].user = u BY DEF OwnsCoupon
<1>2. c \in SubIds /\ subs[c].status # "none" BY <1>1, StatusFacts DEF SubIds, IInv, RowsSound
<1>3. subs'[c] = subs[c] BY <1>2, CouponRows, NobodyGrants
<1>4. QED BY <1>1, <1>3 DEF OwnsCoupon

(* Who redeems a coupon owns one.                                          *)
LEMMA RedeemerOwns ==
    ASSUME IInv, NEW w \in Workers, CommitRedeem(w), NEW u, txn[w].user = u
    PROVE  OwnsCoupon(u)'
<1>1. /\ txn[w].sub \in Coupons /\ txn[w].sub \in SubIds /\ subs \in [SubIds -> SubRow]
      /\ subs' = [subs EXCEPT ![txn[w].sub] = [NoSub EXCEPT !.status = "active",
                                     !.user = txn[w].user, !.plan = txn[w].plan]]
  BY RedeemWrites DEF IInv, TypeOK
<1>2. PICK c \in Coupons : c = txn[w].sub BY <1>1
<1>3. subs'[c].user = u BY <1>1, <1>2 DEF NoSub
<1>4. QED BY <1>3 DEF OwnsCoupon

LEMMA NoLifetimeOrder ==
    ASSUME IInv, CouponsLast, NothingGranted, LifetimeByCoupon, Next,
           NEW s \in Orders \cup Grants
    PROVE  subs'[s].plan # "lifetime"
<1> USE StatusFacts
<1> DEFINE Goal == subs'[s].plan # "lifetime"
<1>1. /\ subs \in [SubIds -> SubRow] /\ s \in SubIds /\ s \notin Coupons
      /\ subs[s].plan # "lifetime"
  BY BillingAssumption DEF IInv, TypeOK, SubIds, CouponsLast
<1>2. CASE subs'[s].plan = subs[s].plan BY <1>1, <1>2
<1>3. ASSUME NEW w \in Workers, InsertOrder(w) PROVE Goal
  <2>1. /\ subs' = [subs EXCEPT ![txn[w].sub] = NewOrder(txn[w].user, txn[w].plan, txn[w].amount)]
        /\ txn[w].plan \in OnSale
    BY <1>3, InsertWrites DEF InsertOrder, IInv, TxnInv, InsertInv
  <2>2. QED BY <1>1, <2>1 DEF NewOrder, NoSub, LifetimeByCoupon
<1>4. ASSUME NEW w \in Workers, CommitActivation(w) PROVE Goal
  <2>1. subs'[s].plan = subs[s].plan
    <3>1. subs' = [subs EXCEPT ![txn[w].sub].status = "active", ![txn[w].sub].expires = txn[w].exp]
      BY <1>4, ActivationWrites
    <3>2. QED BY <1>1, <3>1 DEF SubRow
  <2>2. QED BY <1>1, <2>1
<1>5. ASSUME NEW w \in Workers, CommitRevoke(w) PROVE Goal
  <2>1. subs'[s].plan = subs[s].plan
    <3>1. subs' = [subs EXCEPT ![txn[w].sub].status = txn[w].to,
                                 ![txn[w].sub].refunded =
                                    IF txn[w].to = "refunded" THEN 2 ELSE @]
      BY <1>5, RevokeWrites
    <3>2. QED BY <1>1, <3>1 DEF SubRow
  <2>2. QED BY <1>1, <2>1
<1>6. ASSUME NEW w \in Workers, CommitRedeem(w) PROVE Goal
  BY <1>1, <1>6, RedeemWrites
<1>7. ASSUME NEW o \in Orders, RecordPartialRefund(o) PROVE Goal
  BY <1>1, <1>7, PartialRefundWrites DEF SubRow
<1>8. ASSUME NEW u \in Users, Cancel(u) PROVE Goal
  BY <1>1, <1>8, CancelWrites DEF SubRow
<1>9. CASE Restart
  <2>1. subs'[s] = subs[s] \/ subs'[s] = [subs[s] EXCEPT !.status = "expired"]
    BY <1>1, <1>9, RestartWrites
  <2>2. QED BY <1>1, <2>1 DEF SubRow
<1>10. QED
  BY <1>2, <1>3, <1>4, <1>5, <1>6, <1>7, <1>8, <1>9, StepCases, NobodyGrants, Zenon
  DEF Writes

LEMMA AppliedGrows ==
    ASSUME IInv, NothingGranted, Next
    PROVE  applied \subseteq applied'
<1>1. UNCHANGED history => applied' = applied BY DEF history
<1>2. ASSUME NEW w \in Workers, CommitActivation(w) \/ CommitRedeem(w)
      PROVE applied \subseteq applied'
  BY <1>2, ActivationWrites, RedeemWrites
<1>3. ASSUME Writes, \A w \in Workers : ~(CommitActivation(w) \/ CommitRedeem(w))
      PROVE  UNCHANGED history
  BY <1>3, InsertWrites, RevokeWrites, PartialRefundWrites, RestartWrites, NobodyGrants, Zenon
  DEF Writes, Cancel
<1>4. QED BY <1>1, <1>2, <1>3, StepCases

LEMMA CouponsLastInv ==
    ASSUME IInv, CouponsLast, NothingGranted, NothingGranted', LifetimeByCoupon, Next
    PROVE  CouponsLast'
<1> USE StatusFacts
<1>1. /\ users \in [Users -> UserRow] /\ subs \in [SubIds -> SubRow] /\ txn \in [Workers -> Txn]
      /\ applied \subseteq applied'
  BY AppliedGrows DEF IInv, TypeOK
<1>2. ASSUME NEW c \in Coupons, subs'[c].status # "none"
      PROVE  /\ c \in applied' /\ subs'[c].status = "active"
             /\ subs'[c].plan = "lifetime" /\ subs'[c].expires = Null
  <2>1. CASE subs'[c] = subs[c] BY <1>1, <1>2, <2>1 DEF CouponsLast
  <2>2. ASSUME NEW w \in Workers, CommitRedeem(w), txn[w].sub = c
        PROVE  /\ c \in applied' /\ subs'[c].status = "active"
               /\ subs'[c].plan = "lifetime" /\ subs'[c].expires = Null
    <3>1. /\ c \in SubIds /\ txn[w].plan = "lifetime" /\ applied' = applied \cup {c}
          /\ subs' = [subs EXCEPT ![c] = [NoSub EXCEPT !.status = "active",
                                       !.user = txn[w].user, !.plan = txn[w].plan]]
      BY <2>2, RedeemWrites
    <3>2. subs'[c] = [NoSub EXCEPT !.status = "active", !.user = txn[w].user, !.plan = txn[w].plan]
      BY <1>1, <3>1
    <3>3. QED BY <3>1, <3>2 DEF NoSub
  <2>3. QED BY <2>1, <2>2, CouponRows, NobodyGrants
<1>3. ASSUME NEW u \in Users, users'[u].plan = "lifetime" PROVE OwnsCoupon(u)'
  <2>1. CASE users'[u] = users[u] BY <1>3, <2>1, OwnersStay DEF CouponsLast
  <2>2. CASE users'[u] = [users[u] EXCEPT !.plan = "free", !.planExp = Null]
    BY <1>1, <1>3, <2>2 DEF UserRow
  <2>3. ASSUME NEW w \in Workers, TakenBack(w, u) PROVE OwnsCoupon(u)'
    <3>1. txn[w].pc = "revoke" /\ txn[w].user = u /\ txn[w].plan = "lifetime"
      BY <1>1, <1>3, <2>3, GivesPc DEF TakenBack, UserRow
    <3>2. OwnsCoupon(u) BY <3>1 DEF CouponsLast
    <3>3. QED BY <3>2, OwnersStay
  <2>4. ASSUME NEW w \in Workers, Given(w, u) PROVE OwnsCoupon(u)'
    <3>1. txn[w].user = u /\ txn[w].plan = "lifetime" /\ Gives(w)
      BY <1>1, <1>3, <2>4 DEF Given, UserRow
    <3>2. CASE CommitActivation(w)
      <4>1. txn[w].sub \in Orders /\ subs[txn[w].sub].plan = "lifetime"
        BY <3>1, <3>2, ActivationWrites
      <4>2. QED BY <4>1 DEF CouponsLast
    <3>3. CASE CommitRedeem(w) BY <3>1, <3>3, RedeemerOwns
    <3>4. QED BY <3>1, <3>2, <3>3, NobodyGrants DEF Gives
  <2>5. QED BY <2>1, <2>2, <2>3, <2>4, UserMoves
<1>4. ASSUME NEW v \in Workers, txn'[v].pc = "revoke", txn'[v].plan = "lifetime"
      PROVE  \E c \in Coupons : subs'[c].user = txn'[v].user
  <2>1. CASE txn'[v] = txn[v]
    <3>1. txn[v].user \in Users /\ OwnsCoupon(txn[v].user)
      BY <1>4, <2>1 DEF CouponsLast, IInv, TxnInv, RevokeInv
    <3>2. PICK u \in Users : u = txn[v].user BY <3>1
    <3>3. OwnsCoupon(u)' BY <3>1, <3>2, OwnersStay
    <3>4. QED BY <2>1, <3>2, <3>3 DEF OwnsCoupon
  <2>2. CASE Settled(v) BY <1>4, <2>2 DEF Settled
  <2>3. CASE LockUser(v) BY <1>1, <1>4, <2>3 DEF LockUser, Txn
  <2>4. CASE ReadBest(v)
    <3>1. txn[v] \in Txn BY <1>1
    <3>2. PICK b \in SubIds : BestOf(v, b)
      <4>1. txn'[v].plan # "free" BY <1>4
      <4>2. ASSUME txn' = [txn EXCEPT ![v].pc = "revoke", ![v].plan = "free", ![v].exp = Null]
            PROVE FALSE
        BY <1>1, <3>1, <4>1, <4>2 DEF Txn
      <4>3. QED BY <2>4, <4>2, BestRead
    <3>3. /\ txn'[v].plan = subs[b].plan /\ txn'[v].user = txn[v].user
          /\ subs[b].user = txn[v].user /\ subs' = subs
      BY <1>1, <2>4, <3>1, <3>2, BestRead DEF BestOf, Txn, StillInForce, InForceOf
    <3>4. b \in Coupons BY <1>4, <3>3 DEF CouponsLast, SubIds
    <3>5. QED BY <3>3, <3>4 DEF OwnsCoupon
  <2>5. CASE \E o \in Orders, kind \in Reversals : BeginRevoke(v, o, kind)
    BY <1>1, <1>4, <2>5 DEF BeginRevoke, NoTxn
  <2>6. CASE \E g \in Grants \cup {Null}, u \in Users, p \in AdminPlans, d \in GrantDays,
                allow \in BOOLEAN : BeginGrant(v, g, u, p, d, allow)
    BY <1>1, <1>4, <2>6 DEF BeginGrant, NoTxn
  <2>7. QED BY <2>1, <2>2, <2>3, <2>4, <2>5, <2>6, TxnSteps DEF Prepares, IInv
<1>5. QED BY <1>2, <1>3, <1>4, NoLifetimeOrder DEF CouponsLast, OwnsCoupon

LEMMA AppliedBefore ==
    ASSUME IInv, Next, NEW s \in applied', s \in SubIds, SameTerms(s)
    PROVE  s \in applied
BY AppliedMoves, GivenOnce DEF SameTerms

LEMMA InForceBefore ==
    ASSUME IInv, IInv', RowsInv, Next, NEW s \in SubIds, SameTerms(s), InForce(s, now)'
    PROVE  InForce(s, now)
<1>1. now \in Nat /\ now' \in Nat /\ now' >= now BY ReadBeforeInv DEF IInv, TypeOK, RowsInv
<1>2. subs[s].expires \in Day BY StatusFacts DEF IInv, TypeOK, SubRow
<1>3. QED BY <1>1, <1>2 DEF InForce, SameTerms, Day

(* A user given a subscription in force has held its plan, or a higher one, *)
(* since any day that a request has read.                                   *)
LEMMA CoveringPlan ==
    ASSUME IInv, RowsInv, AppliedCovered, NEW s \in applied, InForce(s, now),
           NEW d \in Nat, d <= now
    PROVE  LET usr == users[subs[s].user]
           IN  /\ subs[s].user \in Users /\ usr \in UserRow /\ Covers(usr, subs[s])
               /\ LivePlan(usr, d) = usr.plan /\ usr.plan # "free"
               /\ usr.plan # "lifetime" => usr.planExp \in Nat
<1>1. /\ s \in SubIds /\ subs[s].status \in Held /\ now \in Nat
      /\ users \in [Users -> UserRow] /\ subs[s] \in SubRow
      /\ subs[s].expires = Null \/ subs[s].expires > now
  BY DEF InForce, IInv, TypeOK
<1>2. subs[s].user \in Users /\ subs[s].plan \in PaidPlans /\ subs[s].expires \in Day
  BY <1>1, StatusFacts DEF IInv, RowsSound, SubRow, Held
<1>3. PICK u \in Users : u = subs[s].user BY <1>2
<1>4. users[u] \in UserRow BY <1>1
<1>5. Covers(users[u], subs[s]) BY <1>3 DEF AppliedCovered
<1>6. Ends(users[u].plan, users[u].planExp) BY DEF RowsInv, EndsKnown
<1>7. subs[s].expires = Null \/ subs[s].expires > d BY <1>1, <1>2 DEF Day
<1>8. LivePlan(users[u], d) = users[u].plan
  BY <1>1, <1>2, <1>4, <1>5, <1>6, <1>7, CoveredLive
<1>9. users[u].plan # "free" BY <1>2, <1>4, <1>5, RankFacts DEF Covers, PaidPlans, TimedPlans
<1>10. users[u].plan # "lifetime" => users[u].planExp \in Nat
  BY <1>4, <1>6, <1>9 DEF Ends, UserRow, Day, TimedPlans, PaidPlans
<1>11. QED BY <1>3, <1>4, <1>5, <1>8, <1>9, <1>10

LEMMA YearsAppliedInv ==
    ASSUME IInv, IInv', RowsInv, CouponsLast, NothingGranted, YearsApplied, Next
    PROVE  YearsApplied'
<1> USE StatusFacts, RankFacts
<1> SUFFICES ASSUME NEW s \in SubIds, InForce(s, now)', subs'[s].plan = "yearly"
             PROVE  s \in applied' \/ OwnsCoupon(subs[s].user)'
  BY DEF YearsApplied
<1>1. subs'[s].status \in Held /\ users \in [Users -> UserRow] BY DEF InForce, IInv, TypeOK
<1>2. CASE SameTerms(s)
  <2>1. InForce(s, now) /\ subs[s].plan = "yearly" BY <1>2, InForceBefore DEF SameTerms
  <2>2. s \in applied \/ OwnsCoupon(subs[s].user) BY <2>1 DEF YearsApplied
  <2>3. CASE s \in applied BY <2>3, AppliedGrows
  <2>4. CASE OwnsCoupon(subs[s].user)
    <3>1. PICK u \in Users : u = subs[s].user
      BY <1>2 DEF SameTerms, IInv, TypeOK, RowsSound, SubRow, Held
    <3>2. OwnsCoupon(u)' BY <2>4, <3>1, OwnersStay
    <3>3. subs'[s].user = u BY <1>2, <3>1 DEF SameTerms
    <3>4. QED BY <3>2, <3>3 DEF OwnsCoupon
  <2>5. QED BY <2>2, <2>3, <2>4
<1>3. ASSUME NEW w \in Workers, GivenRow(w, s)
      PROVE  s \in applied' \/ OwnsCoupon(subs[s].user)'
  <2>1. /\ Gives(w) /\ txn[w].sub = s /\ txn[w].user \in Users /\ subs'[s].user = txn[w].user
        /\ txn[w].plan = "yearly"
    BY <1>3 DEF GivenRow
  <2>2. CommitActivation(w) BY <2>1, NobodyGrants, RedeemWrites DEF Gives
  <2>3. PICK u \in Users : u = txn[w].user BY <2>1
  <2>4. /\ txn[w].live = LivePlan(users[u], txn[w].at)
        /\ \/ applied' = applied \cup {s}
           \/ PLAN_RANK[txn[w].plan] < PLAN_RANK[txn[w].live]
    BY <2>1, <2>2, <2>3, ActivationWrites
  <2>5. CASE PLAN_RANK[txn[w].plan] < PLAN_RANK[txn[w].live]
    <3>1. users[u] \in UserRow BY <1>1
    <3>2. users[u].plan = "lifetime"
      BY <2>1, <2>4, <2>5, <3>1 DEF LivePlan, TimedPlans
    <3>3. OwnsCoupon(u)' BY <3>2, OwnersStay DEF CouponsLast
    <3>4. QED BY <2>1, <2>3, <3>3 DEF OwnsCoupon
  <2>6. QED BY <2>4, <2>5
<1>4. QED BY <1>1, <1>2, <1>3, RowMoves DEF RowsInv

(* No higher plan of the user is in force when a plan is given: the user   *)
(* would hold it.                                                          *)
LEMMA NoneHigher ==
    ASSUME IInv, RowsInv, AppliedCovered, YearsApplied, CouponsLast,
           NEW w \in Workers, CommitActivation(w), txn[w].sub \in applied', txn[w].sub \notin applied,
           NEW b \in SubIds, InForce(b, now), subs[b].user = txn[w].user,
           ~OwnsCoupon(txn[w].user)
    PROVE  PLAN_RANK[subs[b].plan] <= PLAN_RANK[txn[w].plan]
<1> USE StatusFacts, RankFacts
<1>1. PICK u \in Users : u = txn[w].user BY ActivationWrites
<1>2. subs[b].plan \in PaidPlans /\ txn[w].plan \in PaidPlans
  BY ActivationWrites DEF InForce, IInv, RowsSound, Held
<1>3. subs[b].plan # "lifetime"
  <2>1. ASSUME subs[b].plan = "lifetime" PROVE b \in Coupons
    BY <2>1 DEF CouponsLast, SubIds
  <2>2. QED BY <2>1 DEF OwnsCoupon
<1>4. /\ txn[w].live = LivePlan(users[u], txn[w].at) /\ txn[w].at \in Nat /\ txn[w].at <= now
      /\ PLAN_RANK[txn[w].plan] >= PLAN_RANK[txn[w].live]
  BY <1>1, ActivationWrites
<1>5. CASE subs[b].plan = "yearly"
  <2>1. b \in applied BY <1>5 DEF YearsApplied
  <2>2. LivePlan(users[u], txn[w].at) = users[u].plan /\ Covers(users[u], subs[b])
    BY <1>1, <1>4, <2>1, CoveringPlan
  <2>3. PLAN_RANK[users[u].plan] >= 2 BY <1>5, <2>2 DEF Covers
  <2>4. PLAN_RANK[txn[w].plan] >= 2
    <3>1. users[u].plan \in PaidPlans \cup {"free"} BY DEF IInv, TypeOK, UserRow
    <3>2. QED BY <1>2, <1>4, <2>2, <2>3, <3>1 DEF PaidPlans, TimedPlans
  <2>5. QED BY <1>2, <1>5, <2>4 DEF PaidPlans, TimedPlans
<1>6. CASE subs[b].plan = "monthly" BY <1>2, <1>6 DEF PaidPlans, TimedPlans
<1>7. QED BY <1>2, <1>3, <1>5, <1>6 DEF PaidPlans, TimedPlans

(* A new end comes after that of every subscription in force that was given.*)
LEMMA StacksOnGiven ==
    ASSUME IInv, RowsInv, AppliedCovered, CouponsLast,
           NEW w \in Workers, CommitActivation(w), txn[w].plan # "lifetime",
           NEW s \in applied, InForce(s, now), subs[s].user = txn[w].user,
           ~OwnsCoupon(txn[w].user)
    PROVE  subs[s].expires # Null /\ txn[w].exp >= subs[s].expires
<1> USE StatusFacts, RankFacts
<1>1. PICK u \in Users : u = txn[w].user BY ActivationWrites
<1>2. /\ txn[w].at \in Nat /\ txn[w].at <= now /\ txn[w].plan \in TimedPlans
      /\ txn[w].exp = StackedExpiry(users[u], txn[w].plan, txn[w].at)
  BY <1>1, ActivationWrites DEF PaidPlans
<1>3. /\ users[u] \in UserRow /\ Covers(users[u], subs[s])
      /\ LivePlan(users[u], txn[w].at) = users[u].plan /\ users[u].plan # "free"
      /\ users[u].plan # "lifetime" => users[u].planExp \in Nat
  BY <1>1, <1>2, CoveringPlan
<1>4. users[u].plan # "lifetime" BY <1>1 DEF CouponsLast
<1>5. LivePlan(users[u], txn[w].at) \in TimedPlans /\ users[u].planExp \in Nat
  BY <1>3, <1>4 DEF UserRow, PaidPlans
<1>6. /\ txn[w].exp = users[u].planExp + PLAN_DURATIONS[txn[w].plan]
      /\ PLAN_DURATIONS[txn[w].plan] \in Nat
  BY <1>2, <1>5, BillingAssumption DEF StackedExpiry, PLAN_DURATIONS, TimedPlans
<1>7. subs[s].expires # Null /\ users[u].planExp >= subs[s].expires
  BY <1>3, <1>5 DEF Covers
<1>8. subs[s].expires \in Nat BY <1>7 DEF InForce, IInv, TypeOK, SubRow, Day
<1>9. QED BY <1>5, <1>6, <1>7, <1>8

LEMMA HigherLastLongerInv ==
    ASSUME IInv, IInv', RowsInv, OneWorker, AppliedGiven, AppliedCovered, CouponsLast,
           NothingGranted, YearsApplied, HigherLastLonger(now), Next
    PROVE  HigherLastLonger(now)'
<1> USE StatusFacts, RankFacts
<1> SUFFICES ASSUME NEW s \in applied', NEW b \in SubIds, InForce(s, now)', InForce(b, now)',
                    subs'[b].user = subs'[s].user, ~OwnsCoupon(subs[s].user)',
                    PLAN_RANK[subs'[b].plan] > PLAN_RANK[subs'[s].plan]
             PROVE  subs'[s].expires # Null /\ subs'[b].expires >= subs'[s].expires
  BY DEF HigherLastLonger
<1>1. /\ s \in SubIds /\ subs'[s].status \in Held /\ subs'[b].status \in Held
  BY DEF InForce, IInv, TypeOK
<1>2. PICK u \in Users : u = subs'[s].user
  BY <1>1 DEF IInv, TypeOK, RowsSound, SubRow, Held
<1>3. ~OwnsCoupon(u)' BY <1>2 DEF OwnsCoupon
<1>4. ~OwnsCoupon(u) BY <1>3, OwnersStay
<1>5. ASSUME NEW w \in Workers, GivenRow(w, s) \/ GivenRow(w, b) PROVE CommitActivation(w)
  <2>1. txn[w].user = u /\ Gives(w) BY <1>2, <1>5 DEF GivenRow
  <2>2. ~CommitRedeem(w) BY <1>3, <2>1, RedeemerOwns
  <2>3. QED BY <2>1, <2>2, NobodyGrants DEF Gives
<1>6. CASE SameTerms(s) /\ SameTerms(b)
  <2>1. s \in applied /\ InForce(s, now) /\ InForce(b, now)
    BY <1>1, <1>6, AppliedBefore, InForceBefore
  <2>2. subs[s].user = u /\ subs[b].user = u /\ PLAN_RANK[subs[b].plan] > PLAN_RANK[subs[s].plan]
    BY <1>2, <1>6 DEF SameTerms
  <2>3. subs[s].expires # Null /\ subs[b].expires >= subs[s].expires
    BY <1>4, <2>1, <2>2 DEF HigherLastLonger
  <2>4. QED BY <1>6, <2>3 DEF SameTerms
<1>7. ASSUME NEW w \in Workers, GivenRow(w, s), SameTerms(b) PROVE FALSE
  <2>1. CommitActivation(w) /\ txn[w].sub = s /\ txn[w].user = u /\ txn[w].plan = subs'[s].plan
    BY <1>2, <1>5, <1>7 DEF GivenRow
  <2>2. s \notin applied BY <1>1, <2>1, GivenOnce DEF AppliedGiven, Gives
  <2>3. InForce(b, now) /\ subs[b].user = u /\ subs[b].plan = subs'[b].plan
    BY <1>2, <1>7, InForceBefore DEF SameTerms
  <2>4. PLAN_RANK[subs[b].plan] <= PLAN_RANK[txn[w].plan]
    BY <1>4, <2>1, <2>2, <2>3, NoneHigher
  <2>5. txn[w].plan \in PaidPlans /\ subs[b].plan \in PaidPlans
    BY <2>1, <2>3, ActivationWrites DEF InForce, IInv, RowsSound, Held
  <2>6. QED BY <2>1, <2>3, <2>4, <2>5 DEF PaidPlans, TimedPlans
<1>8. ASSUME NEW w \in Workers, GivenRow(w, b), SameTerms(s)
      PROVE  subs'[s].expires # Null /\ subs'[b].expires >= subs'[s].expires
  <2>1. /\ CommitActivation(w) /\ txn[w].sub = b /\ txn[w].user = u
        /\ subs'[b].expires = txn[w].exp
    <3>1. CommitActivation(w) BY <1>5, <1>8
    <3>2. txn[w].pc = "activate" BY <3>1, GivesPc
    <3>3. QED BY <1>2, <1>8, <3>1, <3>2 DEF GivenRow, GivenEnd
  <2>2. s \in applied /\ InForce(s, now) BY <1>1, <1>8, AppliedBefore, InForceBefore
  <2>3. subs[s].user = u BY <1>2, <1>8 DEF SameTerms
  <2>4. txn[w].plan # "lifetime"
    <3>1. b \in Orders /\ subs[b].plan = txn[w].plan BY <2>1, ActivationWrites
    <3>2. QED BY <3>1 DEF CouponsLast
  <2>5. subs[s].expires # Null /\ txn[w].exp >= subs[s].expires
    BY <1>4, <2>1, <2>2, <2>3, <2>4, StacksOnGiven
  <2>6. QED BY <1>8, <2>1, <2>5 DEF SameTerms
<1>9. ASSUME NEW v \in Workers, NEW w \in Workers, GivenRow(v, s), GivenRow(w, b) PROVE FALSE
  <2>1. s = b BY <1>9 DEF OneWorker, GivenRow
  <2>2. subs'[s].plan \in PaidPlans BY <1>1 DEF IInv, RowsSound, Held
  <2>3. QED BY <2>1, <2>2 DEF PaidPlans, TimedPlans
<1>10. QED BY <1>1, <1>6, <1>7, <1>8, <1>9, RowMoves DEF RowsInv

(* While the one request reads or writes a reversal, nothing is given and  *)
(* no subscription changes its terms.                                      *)
LEMMA NothingMoves ==
    ASSUME IInv, BlankRows, OneWorker, Next, NEW v \in Workers,
           txn[v].pc \in {"readBest", "revoke"}, txn'[v] = txn[v]
    PROVE  /\ applied' \subseteq applied
           /\ \A s \in SubIds : subs'[s].status \in Held => SameTerms(s)
<1>1. \A w \in Workers : ~Gives(w) BY GivesPc DEF OneWorker, Gives
<1>2. QED BY <1>1, AppliedMoves, RowMoves DEF GivenRow

LEMMA KeptInForce ==
    ASSUME NEW s \in SubIds, NEW d, SameTerms(s), subs'[s].status \in Held,
           subs'[s].expires = Null \/ subs'[s].expires > d
    PROVE  InForce(s, d)
BY DEF SameTerms, InForce

LEMMA ReadHigherInv ==
    ASSUME IInv, RowsInv, OneWorker, CouponsLast, NothingGranted, HigherLastLonger(now),
           \A w \in Workers : txn[w].pc = "readBest" => HigherLastLonger(txn[w].at),
           Next, NEW v \in Workers, txn'[v].pc = "readBest"
    PROVE  HigherLastLonger(txn[v].at)'
<1>1. txn \in [Workers -> Txn] /\ applied \subseteq SubIds BY DEF IInv, TypeOK
<1>2. CASE txn'[v] = txn[v]
  <2>1. HigherLastLonger(txn[v].at) BY <1>2
  <2>2. SUFFICES ASSUME NEW s \in applied', NEW b \in SubIds,
                        subs'[s].status \in Held, subs'[b].status \in Held,
                        subs'[s].expires = Null \/ subs'[s].expires > txn[v].at,
                        subs'[b].expires = Null \/ subs'[b].expires > txn[v].at,
                        subs'[b].user = subs'[s].user, ~OwnsCoupon(subs[s].user)',
                        PLAN_RANK[subs'[b].plan] > PLAN_RANK[subs'[s].plan]
                 PROVE  subs'[s].expires # Null /\ subs'[b].expires >= subs'[s].expires
    BY <1>2 DEF HigherLastLonger, InForce
  <2>3. s \in applied /\ s \in SubIds /\ SameTerms(s) /\ SameTerms(b)
    BY <1>1, <1>2, <2>2, NothingMoves DEF RowsInv
  <2>4. InForce(s, txn[v].at) /\ InForce(b, txn[v].at) BY <2>2, <2>3, KeptInForce
  <2>5. PICK u \in Users : u = subs[s].user
    BY <2>3, StatusFacts DEF SameTerms, IInv, TypeOK, RowsSound, SubRow, Held
  <2>6. ~OwnsCoupon(u)
    <3>1. ~OwnsCoupon(u)' BY <2>2, <2>3, <2>5 DEF OwnsCoupon, SameTerms
    <3>2. QED BY <3>1, OwnersStay
  <2>7. subs[b].user = u /\ PLAN_RANK[subs[b].plan] > PLAN_RANK[subs[s].plan]
    BY <2>2, <2>3, <2>5 DEF SameTerms
  <2>8. subs[s].expires # Null /\ subs[b].expires >= subs[s].expires
    BY <2>1, <2>3, <2>4, <2>5, <2>6, <2>7 DEF HigherLastLonger
  <2>9. QED BY <2>3, <2>8 DEF SameTerms
<1>3. CASE Settled(v) BY <1>3 DEF Settled
<1>4. CASE LockUser(v) BY <1>1, <1>4 DEF LockUser, Txn
<1>5. CASE ReadBest(v)
  <2>1. PICK p, e : Takes(v, p, e) BY <1>5, BestTaken
  <2>2. txn'[v] = [txn[v] EXCEPT !.pc = "revoke", !.plan = p, !.exp = e] /\ txn[v] \in Txn
    BY <1>1, <2>1 DEF Takes
  <2>3. QED BY <2>2 DEF Txn
<1>6. CASE \E o \in Orders, kind \in Reversals : BeginRevoke(v, o, kind)
  <2>1. txn'[v].at = now /\ subs' = subs /\ applied' = applied
    BY <1>1, <1>6 DEF BeginRevoke, NoTxn, history
  <2>2. QED BY <2>1 DEF HigherLastLonger, InForce, OwnsCoupon
<1>7. CASE \E g \in Grants \cup {Null}, u \in Users, p \in AdminPlans, d \in GrantDays,
              allow \in BOOLEAN : BeginGrant(v, g, u, p, d, allow)
  BY <1>1, <1>7 DEF BeginGrant, NoTxn
<1>8. QED BY <1>2, <1>3, <1>4, <1>5, <1>6, <1>7, TxnSteps DEF Prepares, IInv

(* The best of what is left in force covers all of it that was given.      *)
LEMMA BestCovers ==
    ASSUME IInv, RowsInv, CouponsLast, NEW w \in Workers, txn[w].pc = "readBest",
           HigherLastLonger(txn[w].at), NEW b \in SubIds, BestOf(w, b),
           NEW s \in applied \ {txn[w].sub}, InForce(s, txn[w].at), subs[s].user = txn[w].user
    PROVE  Covers([plan |-> subs[b].plan, planExp |-> subs[b].expires], subs[s])
<1> USE StatusFacts, RankFacts
<1>1. /\ s \in SubIds /\ subs[s].status \in Held /\ subs[s].expires \in Day
      /\ txn[w].sub \in Orders /\ txn[w].user \in Users
  BY DEF InForce, IInv, TypeOK, TxnInv, RevokeInv, SubRow
<1>2. /\ b \in SubIds /\ subs[b].user = txn[w].user /\ InForce(b, txn[w].at)
      /\ subs[b].status \in Held /\ subs[b].expires \in Day
  BY DEF BestOf, StillInForce, InForceOf, InForce, IInv, TypeOK, SubRow
<1>3. \A x \in SubIds \ {txn[w].sub} :
         subs[x].user = txn[w].user /\ InForce(x, txn[w].at) => AtLeastAsGood(b, x)
  BY DEF BestOf, StillInForce, InForceOf
<1>4. subs[s].plan \in PaidPlans /\ subs[b].plan \in PaidPlans
  BY <1>1, <1>2 DEF IInv, RowsSound, Held
<1>5. Ends(subs[b].plan, subs[b].expires) BY <1>2 DEF RowsInv, EndsKnown
<1>6. AtLeastAsGood(b, s) BY <1>1, <1>3
<1>7. PLAN_RANK[subs[b].plan] >= PLAN_RANK[subs[s].plan]
  BY <1>4, <1>6 DEF AtLeastAsGood, PaidPlans, TimedPlans
<1>8. subs[b].expires # Null => subs[s].expires # Null /\ subs[b].expires >= subs[s].expires
  <2>1. CASE PLAN_RANK[subs[b].plan] = PLAN_RANK[subs[s].plan]
    BY <1>4, <1>6, <2>1 DEF AtLeastAsGood, PaidPlans, TimedPlans
  <2>2. CASE OwnsCoupon(txn[w].user)
    <3>1. PICK c \in Coupons : subs[c].user = txn[w].user BY <2>2 DEF OwnsCoupon
    <3>2. c \in SubIds /\ c # txn[w].sub BY <1>1, BillingAssumption DEF SubIds
    <3>3. subs[c].status # "none" BY <1>1, <3>1, <3>2 DEF IInv, RowsSound
    <3>4. subs[c].status = "active" /\ subs[c].plan = "lifetime" /\ subs[c].expires = Null
      BY <3>3 DEF CouponsLast
    <3>5. AtLeastAsGood(b, c) BY <1>3, <3>1, <3>2, <3>4 DEF InForce, Held
    <3>6. subs[b].plan = "lifetime"
      BY <1>4, <3>4, <3>5 DEF AtLeastAsGood, PaidPlans, TimedPlans
    <3>7. QED BY <1>5, <3>6 DEF Ends, TimedPlans
  <2>3. CASE ~OwnsCoupon(txn[w].user) /\ PLAN_RANK[subs[b].plan] > PLAN_RANK[subs[s].plan]
    BY <1>1, <1>2, <2>3 DEF HigherLastLonger
  <2>4. QED BY <1>4, <1>7, <2>1, <2>2, <2>3 DEF PaidPlans, TimedPlans
<1>9. QED BY <1>7, <1>8 DEF Covers

LEMMA BestKnownInv ==
    ASSUME IInv, RowsInv, OneWorker, CouponsLast, BestKnown,
           \A w \in Workers : txn[w].pc = "readBest" => HigherLastLonger(txn[w].at),
           Next
    PROVE  BestKnown'
<1>1. txn \in [Workers -> Txn] /\ applied \subseteq SubIds BY DEF IInv, TypeOK
<1> SUFFICES ASSUME NEW v \in Workers, txn'[v].pc = "revoke", NEW s \in applied' \ {txn'[v].sub},
                    subs'[s].status \in Held,
                    subs'[s].expires = Null \/ subs'[s].expires > txn'[v].at,
                    subs'[s].user = txn'[v].user
             PROVE  Covers([plan |-> txn'[v].plan, planExp |-> txn'[v].exp], subs'[s])
  BY DEF BestKnown, InForce
<1>2. CASE txn'[v] = txn[v]
  <2>1. s \in applied /\ s \in SubIds /\ SameTerms(s)
    BY <1>1, <1>2, NothingMoves DEF RowsInv
  <2>2. InForce(s, txn[v].at) /\ subs[s].user = txn[v].user
    BY <1>2, <2>1, KeptInForce DEF SameTerms
  <2>3. Covers([plan |-> txn[v].plan, planExp |-> txn[v].exp], subs[s])
    BY <1>2, <2>1, <2>2 DEF BestKnown
  <2>4. QED BY <1>2, <2>1, <2>3 DEF Covers, SameTerms
<1>3. CASE Settled(v) BY <1>3 DEF Settled
<1>4. CASE LockUser(v) BY <1>1, <1>4 DEF LockUser, Txn
<1>5. CASE ReadBest(v)
  <2>1. subs' = subs /\ applied' = applied BY <1>5, BestRead DEF history
  <2>2. txn[v] \in Txn /\ txn[v].pc = "readBest" BY <1>1, <1>5 DEF ReadBest
  <2>3. txn'[v].at = txn[v].at /\ txn'[v].user = txn[v].user /\ txn'[v].sub = txn[v].sub
    <3>1. PICK p, e : Takes(v, p, e) BY <1>5, BestTaken
    <3>2. txn'[v] = [txn[v] EXCEPT !.pc = "revoke", !.plan = p, !.exp = e]
      BY <1>1, <3>1 DEF Takes
    <3>3. QED BY <2>2, <3>2 DEF Txn
  <2>4. /\ s \in applied \ {txn[v].sub} /\ s \in SubIds /\ InForce(s, txn[v].at)
        /\ subs[s].user = txn[v].user
    BY <1>1, <2>1, <2>3 DEF InForce
  <2>5. StillInForce(txn[v]) # {} BY <2>4 DEF StillInForce, InForceOf
  <2>6. PICK b \in SubIds : BestOf(v, b) BY <1>5, <2>5, BestRead
  <2>7. txn'[v].plan = subs[b].plan /\ txn'[v].exp = subs[b].expires
    BY <1>1, <2>2, <2>6 DEF BestOf, Txn
  <2>8. Covers([plan |-> subs[b].plan, planExp |-> subs[b].expires], subs[s])
    BY <2>2, <2>4, <2>6, BestCovers
  <2>9. QED BY <2>1, <2>7, <2>8
<1>6. CASE \E o \in Orders, kind \in Reversals : BeginRevoke(v, o, kind)
  BY <1>1, <1>6 DEF BeginRevoke, NoTxn
<1>7. CASE \E g \in Grants \cup {Null}, u \in Users, p \in AdminPlans, d \in GrantDays,
              allow \in BOOLEAN : BeginGrant(v, g, u, p, d, allow)
  BY <1>1, <1>7 DEF BeginGrant, NoTxn
<1>8. QED BY <1>2, <1>3, <1>4, <1>5, <1>6, <1>7, TxnSteps DEF Prepares, IInv

LEMMA CoveredSerial ==
    OneWorker /\ NoGrants /\ LifetimeByCoupon /\ Spec => [](AppliedGiven /\ AppliedCovered)
<1> SUFFICES ASSUME OneWorker, NoGrants, LifetimeByCoupon
             PROVE  Spec => [](AppliedGiven /\ AppliedCovered)
  OBVIOUS
<1> DEFINE Inv == NothingGranted /\ AppliedGiven /\ SerialInv
<1>1. Init => Inv
  <2> SUFFICES ASSUME Init PROVE Inv
    OBVIOUS
  <2>1. /\ NothingGranted /\ AppliedGiven /\ AppliedCovered /\ BestKnown
        /\ \A w \in Workers : txn[w].pc \notin {"readBest", "revoke"}
    BY DEF Init, NothingGranted, AppliedGiven, AppliedCovered, BestKnown, NoTxn
  <2>2. \A s \in SubIds :
           \/ subs[s] = NoSub
           \/ s \in Orders /\ subs[s].status \in Claimable /\ subs[s].plan \in OnSale
    <3>1. PICK owner \in [LegacyOrders -> Users], plan \in [LegacyOrders -> OnSale],
               st \in [LegacyOrders -> Claimable] :
                 subs = [s \in SubIds |->
                           IF s \in LegacyOrders
                           THEN [NewOrder(owner[s], plan[s], Null) EXCEPT !.status = st[s]]
                           ELSE NoSub]
      BY DEF Init
    <3>2. ASSUME NEW s \in LegacyOrders
          PROVE  s \in Orders /\ subs[s].status = st[s] /\ subs[s].plan = plan[s]
      BY <3>1, BillingAssumption DEF NewOrder, NoSub, SubIds
    <3>3. QED BY <3>1, <3>2
  <2>3. \A s \in SubIds : ~InForce(s, now) /\ (s \notin Orders => subs[s] = NoSub)
    BY <2>2 DEF InForce, Held, Claimable, NoSub
  <2>4. CouponsLast
    <3>1. \A s \in Orders \cup Grants : subs[s].plan # "lifetime"
      BY <2>2, BillingAssumption DEF LifetimeByCoupon, NoSub, PaidPlans, SubIds
    <3>2. \A c \in Coupons : subs[c].status = "none"
      BY <2>3, BillingAssumption DEF SubIds, NoSub
    <3>3. \A u \in Users : users[u].plan # "lifetime" BY DEF Init
    <3>4. QED BY <2>1, <3>1, <3>2, <3>3 DEF CouponsLast
  <2>5. QED BY <2>1, <2>3, <2>4 DEF SerialInv, YearsApplied, HigherLastLonger, Init
<1>2. IInv /\ IInv' /\ RowsInv /\ Inv /\ [Next]_vars => Inv'
  <2> SUFFICES ASSUME IInv, IInv', RowsInv, Inv, [Next]_vars PROVE Inv'
    OBVIOUS
  <2>1. CASE Next
    <3>1. NothingGranted' /\ AppliedGiven'
      BY <2>1, KindsKept, AppliedGivenInv DEF IInv
    <3>2. AppliedCovered' BY <2>1, AppliedCoveredInv DEF SerialInv
    <3>3. CouponsLast' BY <2>1, <3>1, CouponsLastInv DEF SerialInv
    <3>4. YearsApplied' BY <2>1, YearsAppliedInv DEF SerialInv
    <3>5. HigherLastLonger(now)' BY <2>1, HigherLastLongerInv DEF SerialInv
    <3>6. BestKnown' BY <2>1, BestKnownInv DEF SerialInv
    <3>7. ASSUME NEW w \in Workers, txn'[w].pc = "readBest"
          PROVE  HigherLastLonger(txn[w].at)'
      BY <2>1, <3>7, ReadHigherInv DEF SerialInv
    <3>8. QED BY <3>1, <3>2, <3>3, <3>4, <3>5, <3>6, <3>7 DEF SerialInv
  <2>2. CASE UNCHANGED vars
    BY <2>2 DEF vars, history, NothingGranted, AppliedGiven, SerialInv, AppliedCovered, CouponsLast,
       YearsApplied, HigherLastLonger, BestKnown, InForce, Covers, OwnsCoupon
  <2>3. QED BY <2>1, <2>2
<1>3. Inv => AppliedGiven /\ AppliedCovered BY DEF SerialInv
<1>4. QED BY <1>1, <1>2, <1>3, Inductive, RowsKnown, PTL DEF Spec

(* With one request at a time, where no admin grants and lifetime plans    *)
(* come from coupons, a subscription in force whose plan was given to its  *)
(* user gives it for as long as it runs, whatever else of the user's is    *)
(* refunded or disputed (_recompute_user_plan, the sweep).                 *)
THEOREM SerialAccessKept ==
    OneWorker /\ NoGrants /\ LifetimeByCoupon /\ Spec => []AppliedKeepsAccess
<1>1. IInv /\ RowsInv /\ AppliedGiven /\ AppliedCovered => AppliedKeepsAccess BY CoveredKeeps
<1>2. QED BY <1>1, CoveredSerial, Inductive, RowsKnown, PTL

----------------------------------------------------------------------------
(* Paid time: sums of durations, with the table of subscriptions as an     *)
(* argument so that they compare a table with the next one.                *)

OfPlan(table, S, plan) == {s \in S : table[s].plan = plan}

Days(table, S) ==
      MonthDays * Cardinality(OfPlan(table, S, "monthly"))
    + YearDays * Cardinality(OfPlan(table, S, "yearly"))

LEMMA DurationIsDays ==
    ASSUME NEW S
    PROVE  Duration(S) = Days(subs, S)
BY DEF Duration, Days, OfPlan

LEMMA PlanDays ==
    /\ PLAN_DURATIONS["monthly"] = MonthDays /\ PLAN_DURATIONS["yearly"] = YearDays
    /\ MonthDays \in Nat /\ YearDays \in Nat
BY BillingAssumption DEF PLAN_DURATIONS

LEMMA Products ==
    ASSUME NEW a \in Nat, NEW b \in Nat, NEW c \in Nat
    PROVE  /\ a * b \in Nat /\ a * (b + 1) = a * b + a
           /\ b <= c => a * b <= a * c
           /\ a * 0 = 0
<1>1. a * b \in Nat /\ a * c \in Nat OBVIOUS
<1>2. a * (b + 1) = a * b + a OBVIOUS
<1>3. ASSUME b <= c PROVE a * b <= a * c
  <2>1. PICK k \in Nat : c = b + k
    <3>1. c - b \in Nat /\ c = b + (c - b) BY <1>3
    <3>2. QED BY <3>1
  <2>2. a * c = a * b + a * k BY <2>1
  <2>3. a * k \in Nat OBVIOUS
  <2>4. QED BY <1>1, <2>2, <2>3
<1>4. QED BY <1>1, <1>2, <1>3

LEMMA OfPlanFinite ==
    ASSUME NEW table, NEW S, IsFiniteSet(S), NEW plan
    PROVE  IsFiniteSet(OfPlan(table, S, plan)) /\ Cardinality(OfPlan(table, S, plan)) \in Nat
BY FS_Subset, FS_CardinalityType DEF OfPlan

LEMMA DaysNat ==
    ASSUME NEW table, NEW S, IsFiniteSet(S)
    PROVE  Days(table, S) \in Nat
<1>1. /\ Cardinality(OfPlan(table, S, "monthly")) \in Nat
      /\ Cardinality(OfPlan(table, S, "yearly")) \in Nat
  BY OfPlanFinite
<1>2. QED BY <1>1, PlanDays, Products DEF Days

LEMMA NoDays ==
    ASSUME NEW table
    PROVE  Days(table, {}) = 0
<1>1. \A plan : OfPlan(table, {}, plan) = {} BY DEF OfPlan
<1>2. QED BY <1>1, FS_EmptySet, PlanDays, Products DEF Days

LEMMA DaysGrow ==
    ASSUME NEW old, NEW new, NEW S, NEW T, IsFiniteSet(T), S \subseteq T,
           \A s \in S : new[s].plan = old[s].plan
    PROVE  Days(old, S) <= Days(new, T)
<1>1. \A plan : OfPlan(old, S, plan) \in SUBSET OfPlan(new, T, plan) BY DEF OfPlan
<1>2. IsFiniteSet(S) BY FS_Subset
<1>3. ASSUME NEW plan
      PROVE  /\ Cardinality(OfPlan(old, S, plan)) \in Nat
             /\ Cardinality(OfPlan(new, T, plan)) \in Nat
             /\ Cardinality(OfPlan(old, S, plan)) <= Cardinality(OfPlan(new, T, plan))
  BY <1>1, <1>2, OfPlanFinite, FS_Subset
<1>4. MonthDays * Cardinality(OfPlan(old, S, "monthly"))
          <= MonthDays * Cardinality(OfPlan(new, T, "monthly"))
  BY <1>3, PlanDays, Products
<1>5. YearDays * Cardinality(OfPlan(old, S, "yearly"))
          <= YearDays * Cardinality(OfPlan(new, T, "yearly"))
  BY <1>3, PlanDays, Products
<1>6. /\ MonthDays * Cardinality(OfPlan(old, S, "monthly")) \in Nat
      /\ MonthDays * Cardinality(OfPlan(new, T, "monthly")) \in Nat
      /\ YearDays * Cardinality(OfPlan(old, S, "yearly")) \in Nat
      /\ YearDays * Cardinality(OfPlan(new, T, "yearly")) \in Nat
  BY <1>3, PlanDays, Products
<1>7. QED BY <1>4, <1>5, <1>6 DEF Days

LEMMA DaysAdd ==
    ASSUME NEW table, NEW S, IsFiniteSet(S), NEW x, x \notin S, table[x].plan \in TimedPlans
    PROVE  Days(table, S \cup {x}) = Days(table, S) + PLAN_DURATIONS[table[x].plan]
<1>1. /\ OfPlan(table, S \cup {x}, table[x].plan) = OfPlan(table, S, table[x].plan) \cup {x}
      /\ x \notin OfPlan(table, S, table[x].plan)
      /\ \A plan : plan # table[x].plan =>
            OfPlan(table, S \cup {x}, plan) = OfPlan(table, S, plan)
  BY DEF OfPlan
<1>2. Cardinality(OfPlan(table, S \cup {x}, table[x].plan))
          = Cardinality(OfPlan(table, S, table[x].plan)) + 1
  BY <1>1, OfPlanFinite, FS_AddElement
<1>3. /\ Cardinality(OfPlan(table, S, "monthly")) \in Nat
      /\ Cardinality(OfPlan(table, S, "yearly")) \in Nat
  BY OfPlanFinite
<1>4. CASE table[x].plan = "monthly"
  <2>1. MonthDays * (Cardinality(OfPlan(table, S, "monthly")) + 1)
           = MonthDays * Cardinality(OfPlan(table, S, "monthly")) + MonthDays
    BY <1>3, PlanDays, Products
  <2>2. OfPlan(table, S \cup {x}, "yearly") = OfPlan(table, S, "yearly") BY <1>1, <1>4
  <2>3. /\ MonthDays * Cardinality(OfPlan(table, S, "monthly")) \in Nat
        /\ YearDays * Cardinality(OfPlan(table, S, "yearly")) \in Nat
    BY <1>3, PlanDays, Products
  <2>4. QED BY <1>2, <1>4, <2>1, <2>2, <2>3, PlanDays DEF Days
<1>5. CASE table[x].plan = "yearly"
  <2>1. YearDays * (Cardinality(OfPlan(table, S, "yearly")) + 1)
           = YearDays * Cardinality(OfPlan(table, S, "yearly")) + YearDays
    BY <1>3, PlanDays, Products
  <2>2. OfPlan(table, S \cup {x}, "monthly") = OfPlan(table, S, "monthly") BY <1>1, <1>5
  <2>3. /\ MonthDays * Cardinality(OfPlan(table, S, "monthly")) \in Nat
        /\ YearDays * Cardinality(OfPlan(table, S, "yearly")) \in Nat
    BY <1>3, PlanDays, Products
  <2>4. QED BY <1>2, <1>5, <2>1, <2>2, <2>3, PlanDays DEF Days
<1>6. QED BY <1>4, <1>5 DEF TimedPlans

(* One commit gives at a time.                                             *)
LEMMA OneGives ==
    ASSUME IInv, NEW v \in Workers, NEW w \in Workers, Gives(v), Gives(w)
    PROVE  v = w
<1>1. txn \in [Workers -> Txn] BY DEF IInv, TypeOK
<1>2. txn[v].pc # "idle" BY GivesPc DEF Gives
<1>3. txn' = [txn EXCEPT ![v] = NoTxn] /\ txn' = [txn EXCEPT ![w] = NoTxn]
  BY ActivationWrites, GrantWrites, RedeemWrites DEF Gives
<1>4. CASE v # w
  <2>1. txn'[v] = NoTxn /\ txn'[v] = txn[v] BY <1>1, <1>3, <1>4
  <2>2. QED BY <1>2, <2>1 DEF NoTxn
<1>5. QED BY <1>4

LEMMA ActivatedRow ==
    ASSUME IInv, NEW w \in Workers, CommitActivation(w)
    PROVE  LET s == txn[w].sub IN
           /\ s \in SubIds /\ subs'[s].status = "active" /\ subs'[s].user = txn[w].user
           /\ subs'[s].plan = txn[w].plan /\ subs'[s].expires = txn[w].exp
<1> DEFINE s == txn[w].sub
<1>1. /\ subs' = [subs EXCEPT ![s].status = "active", ![s].expires = txn[w].exp]
      /\ s \in SubIds /\ subs[s].user = txn[w].user /\ subs[s].plan = txn[w].plan
  BY ActivationWrites
<1>2. subs \in [SubIds -> SubRow] /\ subs[s] \in SubRow BY <1>1 DEF IInv, TypeOK
<1>3. subs'[s] = [subs[s] EXCEPT !.status = "active", !.expires = txn[w].exp] BY <1>1, <1>2
<1>4. /\ subs'[s].status = "active" /\ subs'[s].user = subs[s].user
      /\ subs'[s].expires = txn[w].exp /\ subs'[s].plan = subs[s].plan
  BY <1>2, <1>3 DEF SubRow
<1>5. QED BY <1>1, <1>4, Zenon

HeldRows == {s \in SubIds : subs[s].status \in Held}

LEMMA FinitelyManyInv ==
    ASSUME IInv, BlankRows, FinitelyMany, Next
    PROVE  FinitelyMany'
<1>1. IsFiniteSet(applied) /\ IsFiniteSet(HeldRows) BY DEF FinitelyMany, HeldRows
<1>2. ASSUME NEW w \in Workers, Gives(w) PROVE FinitelyMany'
  <2>1. applied' \in SUBSET (applied \cup {txn[w].sub})
    BY <1>2, AppliedMoves, OneGives
  <2>2. ASSUME NEW s \in HeldRows' PROVE s \in HeldRows \cup {txn[w].sub}
    BY <1>2, <2>2, RowMoves, OneGives DEF HeldRows, SameTerms, GivenRow
  <2>3. IsFiniteSet(applied \cup {txn[w].sub}) /\ IsFiniteSet(HeldRows \cup {txn[w].sub})
    BY <1>1, FS_AddElement
  <2>4. IsFiniteSet(applied') /\ IsFiniteSet(HeldRows') BY <2>1, <2>2, <2>3, FS_Subset
  <2>5. QED BY <2>4 DEF FinitelyMany, HeldRows
<1>3. CASE \A w \in Workers : ~Gives(w)
  <2>1. applied' \in SUBSET applied BY <1>3, AppliedMoves
  <2>2. HeldRows' \in SUBSET HeldRows
    BY <1>3, RowMoves DEF HeldRows, SameTerms, GivenRow
  <2>3. IsFiniteSet(applied') /\ IsFiniteSet(HeldRows') BY <1>1, <2>1, <2>2, FS_Subset
  <2>4. QED BY <2>3 DEF FinitelyMany, HeldRows
<1>4. QED BY <1>2, <1>3

----------------------------------------------------------------------------
(* Access is paid for                                                      *)

LEMMA InitialRows ==
    ASSUME Init, NEW s \in SubIds
    PROVE  \/ subs[s] = NoSub
           \/ s \in Orders /\ subs[s].status \in Claimable /\ subs[s].plan \in OnSale
<1>1. PICK owner \in [LegacyOrders -> Users], plan \in [LegacyOrders -> OnSale],
           st \in [LegacyOrders -> Claimable] :
             subs = [x \in SubIds |->
                       IF x \in LegacyOrders
                       THEN [NewOrder(owner[x], plan[x], Null) EXCEPT !.status = st[x]]
                       ELSE NoSub]
  BY DEF Init
<1>2. ASSUME s \in LegacyOrders
      PROVE  s \in Orders /\ subs[s].status = st[s] /\ subs[s].plan = plan[s]
  BY <1>1, <1>2, BillingAssumption DEF NewOrder, NoSub
<1>3. QED BY <1>1, <1>2

LEMMA InForceFinite ==
    ASSUME FinitelyMany, NEW u, NEW d
    PROVE  IsFiniteSet(InForceOf(u, d))
<1>1. IsFiniteSet(HeldRows) BY DEF FinitelyMany, HeldRows
<1>2. InForceOf(u, d) \in SUBSET HeldRows BY DEF InForceOf, InForce, HeldRows
<1>3. QED BY <1>1, <1>2, FS_Subset

(* Without trials the end of an activation is the end of the plan held, or *)
(* the day on which it was computed, plus the days of the plan.            *)
LEMMA StacksUntried ==
    ASSUME NEW usr \in UserRow, usr.trialExp = Null, NEW plan \in TimedPlans, NEW d \in Nat
    PROVE  /\ PLAN_DURATIONS[plan] \in Nat
           /\ \/ StackedExpiry(usr, plan, d) = d + PLAN_DURATIONS[plan]
              \/ /\ usr.plan \in TimedPlans /\ usr.planExp \in Nat
                 /\ StackedExpiry(usr, plan, d) = usr.planExp + PLAN_DURATIONS[plan]
<1>1. PLAN_DURATIONS[plan] \in Nat BY PlanDays DEF TimedPlans
<1>2. plan # "lifetime" BY DEF TimedPlans
<1>3. CASE LivePlan(usr, d) \in TimedPlans
  <2>1. usr.plan \in TimedPlans /\ usr.planExp \in Nat
    BY <1>3 DEF LivePlan, TimedPlans, UserRow, Day
  <2>2. QED BY <1>1, <1>2, <1>3, <2>1 DEF StackedExpiry
<1>4. CASE LivePlan(usr, d) \notin TimedPlans BY <1>1, <1>2, <1>4 DEF StackedExpiry
<1>5. QED BY <1>3, <1>4

Untried == \A u \in Users : users[u].trialExp = Null

LEMMA UntriedInv ==
    ASSUME IInv, Untried, Next
    PROVE  Untried'
<1>1. users \in [Users -> UserRow] BY DEF IInv, TypeOK
<1>2. ASSUME NEW u \in Users PROVE users'[u].trialExp = Null
  <2>1. users[u].trialExp = Null /\ users[u] \in UserRow BY <1>1 DEF Untried
  <2>2. CASE users'[u] = users[u] BY <2>1, <2>2
  <2>3. CASE users'[u] = [users[u] EXCEPT !.plan = "free", !.planExp = Null]
    BY <2>1, <2>3 DEF UserRow
  <2>4. ASSUME NEW w \in Workers, Given(w, u) PROVE users'[u].trialExp = Null
    BY <2>1, <2>4 DEF Given, UserRow, EndTrial
  <2>5. ASSUME NEW w \in Workers, TakenBack(w, u) PROVE users'[u].trialExp = Null
    BY <2>1, <2>5 DEF TakenBack, UserRow
  <2>6. QED BY <2>2, <2>3, <2>4, <2>5, UserMoves
<1>3. QED BY <1>2 DEF Untried

(* What is in force on a day to come stays so, where nothing is taken back. *)
LEMMA InForceStays ==
    ASSUME IInv, IInv', RowsInv, NothingReversed, NothingGranted, Next,
           NEW u \in Users, NEW d \in Nat, d >= now'
    PROVE  /\ InForceOf(u, d) \subseteq InForceOf(u, d)'
           /\ \A s \in InForceOf(u, d) : subs'[s].plan = subs[s].plan
<1>1. now \in Nat /\ now' \in Nat /\ now' >= now BY ReadBeforeInv DEF IInv, TypeOK, RowsInv
<1>2. ASSUME NEW s \in InForceOf(u, d)
      PROVE  s \in InForceOf(u, d)' /\ subs'[s].plan = subs[s].plan
  <2>1. /\ s \in SubIds /\ subs[s].user = u /\ subs[s].status \in Held
        /\ subs[s].expires = Null \/ subs[s].expires > d
    BY DEF InForceOf, InForce
  <2>2. subs[s].expires \in Nat \cup {Null} BY <2>1 DEF IInv, TypeOK, SubRow, Day
  <2>3. InForce(s, now) BY <1>1, <2>1, <2>2 DEF InForce
  <2>4. subs'[s].status \in Held /\ SameTerms(s)
    BY <2>1, <2>3, RowStays, NobodyGrants DEF RowsInv
  <2>5. QED BY <2>1, <2>4 DEF SameTerms, InForceOf, InForce
<1>3. QED BY <1>2

LEMMA PaidAheadInv ==
    ASSUME IInv, IInv', RowsInv, RowsInv', NothingReversed, NothingGranted, Untried,
           FinitelyMany, FinitelyMany', PaidAhead, Next
    PROVE  PaidAhead'
<1> USE StatusFacts
<1>1. /\ users \in [Users -> UserRow] /\ users' \in [Users -> UserRow]
      /\ subs \in [SubIds -> SubRow] /\ subs' \in [SubIds -> SubRow]
      /\ now \in Nat /\ now' \in Nat /\ now' >= now
  BY ReadBeforeInv DEF IInv, TypeOK, RowsInv
<1>2. SUFFICES ASSUME NEW u \in Users, users'[u].plan \in TimedPlans,
                      NEW d \in now' .. users'[u].planExp - 1
               PROVE  users'[u].planExp - d <= Days(subs', InForceOf(u, d)')
  BY DEF PaidAhead, Duration, Days, OfPlan
<1>3. /\ users'[u].planExp \in Nat /\ d \in Nat /\ d >= now' /\ d < users'[u].planExp
  <2>1. users'[u].planExp \in Nat
    BY <1>1, <1>2 DEF RowsInv, EndsKnown, Ends, UserRow, Day
  <2>2. QED BY <1>1, <2>1
<1>4. /\ InForceOf(u, d) \subseteq InForceOf(u, d)'
      /\ \A s \in InForceOf(u, d) : subs'[s].plan = subs[s].plan
  BY <1>3, InForceStays
<1>5. IsFiniteSet(InForceOf(u, d)) /\ IsFiniteSet(InForceOf(u, d)')
  <2>1. IsFiniteSet(HeldRows') BY DEF FinitelyMany, HeldRows
  <2>2. InForceOf(u, d)' \in SUBSET HeldRows' BY DEF InForceOf, InForce, HeldRows
  <2>3. QED BY <2>1, <2>2, FS_Subset, InForceFinite
<1>6. /\ Days(subs, InForceOf(u, d)) \in Nat /\ Days(subs', InForceOf(u, d)') \in Nat
      /\ Days(subs, InForceOf(u, d)) <= Days(subs', InForceOf(u, d)')
  BY <1>4, <1>5, DaysNat, DaysGrow
<1>7. ASSUME users[u].plan \in TimedPlans, users[u].planExp \in Nat, d < users[u].planExp
      PROVE  users[u].planExp - d <= Days(subs, InForceOf(u, d))
  <2>1. d \in now .. users[u].planExp - 1 BY <1>1, <1>3, <1>7
  <2>2. QED BY <1>7, <2>1, DurationIsDays DEF PaidAhead
<1>8. CASE users'[u] = users[u]
  BY <1>2, <1>3, <1>6, <1>7, <1>8
<1>9. CASE users'[u] = [users[u] EXCEPT !.plan = "free", !.planExp = Null]
  BY <1>1, <1>2, <1>9 DEF UserRow, TimedPlans
<1>10. ASSUME NEW w \in Workers, TakenBack(w, u) PROVE FALSE
  BY <1>10, GivesPc DEF NothingReversed, TakenBack
<1>11. ASSUME NEW w \in Workers, Given(w, u)
       PROVE  users'[u].planExp - d <= Days(subs', InForceOf(u, d)')
  <2>1. /\ users'[u].plan = txn[w].plan /\ users'[u].planExp = GivenEnd(txn[w])
        /\ txn[w].user = u /\ Gives(w)
    BY <1>1, <1>11 DEF Given, UserRow
  <2>2. CommitActivation(w)
    <3>1. ~CommitGrant(w) BY NobodyGrants
    <3>2. ~CommitRedeem(w) BY <1>2, <2>1, RedeemWrites DEF TimedPlans
    <3>3. QED BY <2>1, <3>1, <3>2 DEF Gives
  <2>3. DEFINE s == txn[w].sub
  <2>4. /\ s \in SubIds /\ subs[s].status \in Claimable /\ subs[s].plan = txn[w].plan
        /\ txn[w].at \in Nat /\ txn[w].at <= now
        /\ txn[w].exp = StackedExpiry(users[u], txn[w].plan, txn[w].at)
        /\ subs'[s].status = "active" /\ subs'[s].user = u
        /\ subs'[s].expires = txn[w].exp /\ subs'[s].plan = txn[w].plan
    BY <2>1, <2>2, ActivationWrites, ActivatedRow, Zenon
  <2>5. users'[u].planExp = txn[w].exp BY <2>1, <2>2, GivesPc DEF GivenEnd
  <2>6. s \in InForceOf(u, d)' /\ s \notin InForceOf(u, d)
    BY <1>3, <2>4, <2>5 DEF InForceOf, InForce, Held, Claimable
  <2>7. Days(subs, InForceOf(u, d) \cup {s})
           = Days(subs, InForceOf(u, d)) + PLAN_DURATIONS[txn[w].plan]
    BY <1>2, <1>5, <2>1, <2>4, <2>6, DaysAdd
  <2>8. Days(subs, InForceOf(u, d) \cup {s}) <= Days(subs', InForceOf(u, d)')
    BY <1>4, <1>5, <2>4, <2>6, DaysGrow
  <2>9. users[u].trialExp = Null /\ users[u] \in UserRow BY <1>1 DEF Untried
  <2>10. /\ PLAN_DURATIONS[txn[w].plan] \in Nat
         /\ \/ txn[w].exp = txn[w].at + PLAN_DURATIONS[txn[w].plan]
            \/ /\ users[u].plan \in TimedPlans /\ users[u].planExp \in Nat
               /\ txn[w].exp = users[u].planExp + PLAN_DURATIONS[txn[w].plan]
    BY <1>2, <2>1, <2>4, <2>9, StacksUntried
  <2>11. CASE txn[w].exp = txn[w].at + PLAN_DURATIONS[txn[w].plan]
    BY <1>1, <1>3, <1>6, <2>4, <2>5, <2>7, <2>8, <2>10, <2>11
  <2>12. CASE /\ users[u].plan \in TimedPlans /\ users[u].planExp \in Nat
              /\ txn[w].exp = users[u].planExp + PLAN_DURATIONS[txn[w].plan]
    BY <1>3, <1>6, <1>7, <2>5, <2>7, <2>8, <2>10, <2>12
  <2>13. QED BY <2>10, <2>11, <2>12
<1>12. QED BY <1>8, <1>9, <1>10, <1>11, UserMoves

(* Where nothing is reversed, nobody starts with a trial and no admin      *)
(* grants, a timed plan in force never lasts longer than the orders in     *)
(* force pay for, however purchases race, restarts included                *)
(* (activate_subscription, redeem_coupon, the sweep).                      *)
THEOREM AccessPaidFor ==
    NoReversals /\ NoGrants /\ NoFirstTrials /\ Spec => []AccessIsPaidFor
<1> SUFFICES ASSUME NoReversals, NoGrants, NoFirstTrials PROVE Spec => []AccessIsPaidFor
  OBVIOUS
<1> DEFINE Inv == NothingReversed /\ NothingGranted /\ Untried /\ FinitelyMany /\ PaidAhead
<1>1. Init => Inv
  <2> SUFFICES ASSUME Init PROVE Inv
    OBVIOUS
  <2>1. NothingReversed /\ NothingGranted /\ Untried /\ PaidAhead
    BY DEF Init, NothingReversed, NothingGranted, NoTxn, Untried, NoFirstTrials, PaidAhead, TimedPlans
  <2>2. applied = {} BY DEF Init
  <2>3. {s \in SubIds : subs[s].status \in Held} = {}
    BY InitialRows DEF NoSub, Held, Claimable
  <2>4. QED BY <2>1, <2>2, <2>3, FS_EmptySet DEF FinitelyMany
<1>2. IInv /\ IInv' /\ RowsInv /\ RowsInv' /\ Inv /\ [Next]_vars => Inv'
  <2> SUFFICES ASSUME IInv, IInv', RowsInv, RowsInv', Inv, [Next]_vars PROVE Inv'
    OBVIOUS
  <2>1. CASE Next
    <3>1. NothingReversed' /\ NothingGranted' BY <2>1, KindsKept DEF IInv
    <3>2. Untried' BY <2>1, UntriedInv
    <3>3. FinitelyMany' BY <2>1, FinitelyManyInv DEF RowsInv
    <3>4. PaidAhead' BY <2>1, <3>3, PaidAheadInv
    <3>5. QED BY <3>1, <3>2, <3>3, <3>4
  <2>2. CASE UNCHANGED vars
    BY <2>2 DEF vars, history, NothingReversed, NothingGranted, Untried, FinitelyMany, PaidAhead,
       Duration, InForceOf, InForce
  <2>3. QED BY <2>1, <2>2
<1>3. IInv /\ Inv => AccessIsPaidFor
  <2> SUFFICES ASSUME IInv, PaidAhead, NEW u \in Users, LivePlan(users[u], now) \in TimedPlans
               PROVE  users[u].planExp - now <= Duration(InForceOf(u, now))
    BY DEF AccessIsPaidFor
  <2>1. /\ users[u].plan \in TimedPlans /\ users[u].planExp \in Nat /\ now \in Nat
        /\ users[u].planExp > now
    BY DEF LivePlan, IInv, TypeOK, UserRow, Day, TimedPlans
  <2>2. now \in now .. users[u].planExp - 1 BY <2>1
  <2>3. QED BY <2>1, <2>2 DEF PaidAhead
<1>4. QED BY <1>1, <1>2, <1>3, Inductive, RowsKnown, PTL DEF Spec

----------------------------------------------------------------------------
(* Paid time is kept                                                       *)

LEMMA ExpiredRows ==
    ASSUME IInv, Next, NEW s \in SubIds, subs'[s].status = "expired"
    PROVE  /\ subs'[s].user = subs[s].user /\ subs'[s].plan = subs[s].plan
           /\ subs'[s].expires = subs[s].expires
           /\ subs[s].status = "expired" \/ Stale(s)
<1> USE StatusFacts DEF Held, Claimable
<1> DEFINE Goal == /\ subs'[s].user = subs[s].user /\ subs'[s].plan = subs[s].plan
                   /\ subs'[s].expires = subs[s].expires
                   /\ subs[s].status = "expired" \/ Stale(s)
<1>1. subs \in [SubIds -> SubRow] /\ subs[s] \in SubRow BY DEF IInv, TypeOK
<1>2. CASE subs'[s] = subs[s] BY <1>2
<1>3. ASSUME NEW w \in Workers, InsertOrder(w) PROVE Goal
  <2>1. subs' = [subs EXCEPT ![txn[w].sub] = NewOrder(txn[w].user, txn[w].plan, txn[w].amount)]
    BY <1>3, InsertWrites
  <2>2. QED BY <1>1, <1>2, <2>1 DEF NewOrder, NoSub
<1>4. ASSUME NEW w \in Workers, CommitActivation(w) PROVE Goal
  <2>1. subs' = [subs EXCEPT ![txn[w].sub].status = "active", ![txn[w].sub].expires = txn[w].exp]
    BY <1>4, ActivationWrites
  <2>2. QED BY <1>1, <1>2, <2>1 DEF SubRow
<1>5. ASSUME NEW w \in Workers, CommitRevoke(w) PROVE Goal
  <2>1. /\ txn[w].to \in {"refunded", "disputed"}
        /\ subs' = [subs EXCEPT ![txn[w].sub].status = txn[w].to,
                       ![txn[w].sub].refunded = IF txn[w].to = "refunded" THEN 2 ELSE @]
    BY <1>5, RevokeWrites
  <2>2. QED BY <1>1, <1>2, <2>1 DEF SubRow
<1>6. ASSUME NEW w \in Workers, CommitGrant(w) PROVE Goal
  <2>1. subs' = [x \in SubIds |->
                   IF x \in GrantVictims(txn[w]) THEN [subs[x] EXCEPT !.status = "revoked"]
                   ELSE IF x = txn[w].sub THEN GrantRow(txn[w]) ELSE subs[x]]
    BY <1>6, GrantWrites
  <2>2. [subs[s] EXCEPT !.status = "revoked"].status = "revoked" BY <1>1 DEF SubRow
  <2>3. QED BY <1>2, <2>1, <2>2 DEF GrantRow, NoSub
<1>7. ASSUME NEW w \in Workers, CommitRedeem(w) PROVE Goal
  <2>1. subs' = [subs EXCEPT ![txn[w].sub] = [NoSub EXCEPT !.status = "active",
                                     !.user = txn[w].user, !.plan = txn[w].plan]]
    BY <1>7, RedeemWrites
  <2>2. QED BY <1>1, <1>2, <2>1 DEF NoSub
<1>8. ASSUME NEW o \in Orders, RecordPartialRefund(o) PROVE Goal
  <2>1. subs' = [subs EXCEPT ![o].refunded = IF @ > 1 THEN @ ELSE 1]
    BY <1>8, PartialRefundWrites
  <2>2. QED BY <1>1, <1>2, <2>1 DEF SubRow
<1>9. ASSUME NEW u \in Users, Cancel(u) PROVE Goal
  <2>1. \/ subs'[s] = subs[s]
        \/ subs[s].status = "active" /\ subs'[s] = [subs[s] EXCEPT !.status = "cancelled"]
    BY <1>9, CancelWrites
  <2>2. QED BY <1>1, <1>2, <2>1 DEF SubRow
<1>10. CASE Restart
  <2>1. CASE Stale(s)
    <3>1. subs'[s] = [subs[s] EXCEPT !.status = "expired"] BY <1>10, <2>1, RestartWrites
    <3>2. QED BY <1>1, <2>1, <3>1 DEF SubRow
  <2>2. CASE ~Stale(s) BY <1>2, <1>10, <2>2, RestartWrites
  <2>3. QED BY <2>1, <2>2
<1>11. CASE UNCHANGED subs BY <1>2, <1>11
<1>12. QED
  BY <1>3, <1>4, <1>5, <1>6, <1>7, <1>8, <1>9, <1>10, <1>11, StepCases DEF Writes

LEMMA ExpiredOverInv ==
    ASSUME IInv, IInv', RowsInv, ExpiredOver, Next
    PROVE  ExpiredOver'
<1>1. now \in Nat /\ now' \in Nat /\ now' >= now BY ReadBeforeInv DEF IInv, TypeOK, RowsInv
<1>2. ASSUME NEW s \in SubIds, subs'[s].status = "expired"
      PROVE  subs'[s].expires # Null /\ subs'[s].expires < now'
  <2>1. subs'[s].expires = subs[s].expires /\ (subs[s].status = "expired" \/ Stale(s))
    BY <1>2, ExpiredRows
  <2>2. subs[s].expires # Null /\ subs[s].expires < now BY <2>1 DEF ExpiredOver, Stale
  <2>3. subs[s].expires \in Nat BY <2>2 DEF IInv, TypeOK, SubRow, Day
  <2>4. QED BY <1>1, <2>1, <2>2, <2>3
<1>3. QED BY <1>2 DEF ExpiredOver

(* An order kept was kept, with the same terms, or is given by this step.  *)
SameOrder(s) == subs'[s].plan = subs[s].plan /\ subs'[s].expires = subs[s].expires

JustGiven(w, s) == CommitActivation(w) /\ txn[w].sub = s /\ s \notin applied

LEMMA KeptMoves ==
    ASSUME IInv, BlankRows, AppliedGiven, Next, NEW u \in Users, NEW s \in Kept(u)'
    PROVE  \/ s \in Kept(u) /\ SameOrder(s)
           \/ \E w \in Workers : JustGiven(w, s) /\ txn[w].user = u
<1>1. /\ s \in Orders /\ s \in SubIds /\ s \in applied' /\ subs'[s].user = u
      /\ subs'[s].status \in Held \cup {"expired"}
  BY StatusFacts DEF Kept
<1>2. CASE s \in applied
  <2>1. CASE subs'[s].status = "expired"
    BY <1>1, <1>2, <2>1, ExpiredRows DEF Kept, SameOrder, Stale
  <2>2. CASE subs'[s].status \in Held
    <3>1. \A w \in Workers : ~GivenRow(w, s)
      BY <1>1, <1>2, GivenOnce DEF GivenRow, AppliedGiven
    <3>2. SameTerms(s) BY <1>1, <2>2, <3>1, RowMoves
    <3>3. QED BY <1>1, <1>2, <3>2 DEF Kept, SameOrder, SameTerms
  <2>3. QED BY <1>1, <2>1, <2>2
<1>3. CASE s \notin applied
  <2>1. PICK w \in Workers : Gives(w) /\ txn[w].sub = s BY <1>1, <1>3, AppliedMoves
  <2>2. ~CommitGrant(w)
    <3>1. CommitGrant(w) => s \in Grants \cup {Null} BY <2>1, GrantWrites
    <3>2. QED BY <1>1, <3>1, BillingAssumption
  <2>3. ~CommitRedeem(w)
    <3>1. CommitRedeem(w) => s \in Coupons BY <2>1, RedeemWrites
    <3>2. QED BY <1>1, <3>1, BillingAssumption
  <2>4. CommitActivation(w) BY <2>1, <2>2, <2>3 DEF Gives
  <2>5. subs'[s].user = txn[w].user BY <2>1, <2>4, ActivatedRow
  <2>6. QED BY <1>1, <1>3, <2>1, <2>4, <2>5 DEF JustGiven
<1>4. QED BY <1>2, <1>3

LEMMA KeptEnds ==
    ASSUME IInv, RowsInv, ExpiredOver, NEW u \in Users, NEW k \in Kept(u)
    PROVE  /\ k \in SubIds /\ k \in applied /\ subs[k].user = u
           /\ subs[k].expires \in Nat \cup {Null}
           /\ subs[k].plan \in TimedPlans => subs[k].expires \in Nat
           /\ ~InForce(k, now) => subs[k].expires \in Nat /\ subs[k].expires <= now
<1>1. /\ k \in SubIds /\ k \in applied /\ subs[k].user = u
      /\ subs[k].status \in Held \cup {"expired"}
  BY StatusFacts DEF Kept
<1>2. subs[k].expires \in Nat \cup {Null} /\ now \in Nat
  BY <1>1 DEF IInv, TypeOK, SubRow, Day
<1>3. CASE subs[k].status = "expired" BY <1>1, <1>2, <1>3 DEF ExpiredOver
<1>4. CASE subs[k].status \in Held
  <2>1. Ends(subs[k].plan, subs[k].expires) BY <1>1, <1>4 DEF RowsInv, EndsKnown
  <2>2. QED BY <1>1, <1>2, <1>4, <2>1 DEF Ends, InForce
<1>5. QED BY <1>1, <1>3, <1>4

LEMMA StackedAbove ==
    ASSUME NEW usr \in UserRow, NEW plan \in TimedPlans, NEW d \in Nat
    PROVE  /\ PLAN_DURATIONS[plan] \in Nat /\ StackedExpiry(usr, plan, d) \in Nat
           /\ StackedExpiry(usr, plan, d) >= d + PLAN_DURATIONS[plan]
           /\ LivePlan(usr, d) \in TimedPlans =>
                 /\ usr.planExp \in Nat
                 /\ StackedExpiry(usr, plan, d) = usr.planExp + PLAN_DURATIONS[plan]
<1>1. PLAN_DURATIONS[plan] \in Nat /\ plan # "lifetime" BY PlanDays DEF TimedPlans
<1>2. CASE LivePlan(usr, d) \in TimedPlans
  <2>1. usr.planExp \in Nat /\ usr.planExp > d
    BY <1>2 DEF LivePlan, TimedPlans, UserRow, Day
  <2>2. QED BY <1>1, <1>2, <2>1 DEF StackedExpiry
<1>3. CASE LivePlan(usr, d) \notin TimedPlans
  <2>1. usr.trialExp # Null => usr.trialExp \in Nat BY DEF UserRow, Day
  <2>2. QED BY <1>1, <1>3, <2>1 DEF StackedExpiry
<1>4. QED BY <1>2, <1>3

LEMMA LockStacks ==
    ASSUME IInv, RowsInv, AppliedCovered, ExpiredOver, NEW u \in Users, NEW k \in Kept(u),
           subs[k].expires # Null, NEW plan \in TimedPlans,
           PLAN_RANK[plan] >= PLAN_RANK[LivePlan(users[u], now)]
    PROVE  StackedExpiry(users[u], plan, now) >= subs[k].expires + PLAN_DURATIONS[plan]
<1> USE RankFacts
<1>1. now \in Nat /\ users[u] \in UserRow BY DEF IInv, TypeOK
<1>2. /\ PLAN_DURATIONS[plan] \in Nat /\ StackedExpiry(users[u], plan, now) \in Nat
      /\ StackedExpiry(users[u], plan, now) >= now + PLAN_DURATIONS[plan]
      /\ LivePlan(users[u], now) \in TimedPlans =>
            /\ users[u].planExp \in Nat
            /\ StackedExpiry(users[u], plan, now) = users[u].planExp + PLAN_DURATIONS[plan]
  BY <1>1, StackedAbove
<1>3. k \in applied /\ subs[k].user = u /\ subs[k].expires \in Nat BY KeptEnds
<1>4. CASE ~InForce(k, now)
  <2>1. subs[k].expires <= now BY <1>4, KeptEnds
  <2>2. QED BY <1>1, <1>2, <1>3, <2>1
<1>5. CASE InForce(k, now)
  <2>1. /\ Covers(users[u], subs[k]) /\ LivePlan(users[u], now) = users[u].plan
        /\ users[u].plan # "free"
    BY <1>1, <1>3, <1>5, CoveringPlan
  <2>2. users[u].plan \in TimedPlans
    BY <1>1, <2>1 DEF UserRow, PaidPlans, TimedPlans
  <2>3. users[u].planExp \in Nat /\ users[u].planExp >= subs[k].expires
    BY <1>2, <2>1, <2>2, StatusFacts DEF Covers
  <2>4. QED BY <1>2, <1>3, <2>1, <2>2, <2>3
<1>6. QED BY <1>4, <1>5

LEMMA LocksToActivate ==
    ASSUME TypeOK, NEW v \in Workers, LockUser(v)
    PROVE  /\ txn'[v].user = txn[v].user /\ txn'[v].plan = txn[v].plan
           /\ txn'[v].exp = StackedExpiry(users[txn[v].user], txn[v].plan, now)
           /\ txn'[v].live = LivePlan(users[txn[v].user], now)
<1>1. txn[v] \in Txn /\ txn \in [Workers -> Txn] BY DEF TypeOK
<1>2. txn'[v] = [txn[v] EXCEPT !.pc = "activate", !.at = now,
                          !.exp = StackedExpiry(users[txn[v].user], txn[v].plan, now),
                          !.live = LivePlan(users[txn[v].user], now),
                          !.locks = txn[v].locks \cup {txn[v].user}]
  BY <1>1, Zenon DEF LockUser
<1>3. QED BY <1>1, <1>2 DEF Txn

LEMMA OnlyLocks ==
    ASSUME TypeOK, Next, NEW v \in Workers, txn'[v].pc = "activate"
    PROVE  txn'[v] = txn[v] \/ LockUser(v)
<1>1. txn \in [Workers -> Txn] BY DEF TypeOK
<1>2. ASSUME ReadBest(v) PROVE FALSE
  <2>1. PICK p, e : Takes(v, p, e) BY <1>2, BestTaken
  <2>2. txn'[v] = [txn[v] EXCEPT !.pc = "revoke", !.plan = p, !.exp = e] /\ txn[v] \in Txn
    BY <1>1, <2>1 DEF Takes
  <2>3. QED BY <2>2 DEF Txn
<1>3. ASSUME \E o \in Orders, kind \in Reversals : BeginRevoke(v, o, kind) PROVE FALSE
  BY <1>1, <1>3 DEF BeginRevoke, NoTxn
<1>4. ASSUME \E g \in Grants \cup {Null}, u \in Users, p \in AdminPlans, d \in GrantDays,
                allow \in BOOLEAN : BeginGrant(v, g, u, p, d, allow)
      PROVE  FALSE
  BY <1>1, <1>4 DEF BeginGrant, NoTxn
<1>5. QED BY <1>2, <1>3, <1>4, TxnSteps DEF Prepares, Settled

LEMMA StacksOnKeptInv ==
    ASSUME IInv, IInv', RowsInv, RowsInv', AppliedGiven, AppliedCovered, ExpiredOver, StacksOnKept, Next
    PROVE  StacksOnKept'
<1> USE StatusFacts
<1>1. txn \in [Workers -> Txn] /\ users \in [Users -> UserRow] /\ TypeOK BY DEF IInv, TypeOK
<1> SUFFICES ASSUME NEW v \in Workers, txn'[v].pc = "activate",
                    PLAN_RANK[txn'[v].plan] >= PLAN_RANK[txn'[v].live],
                    NEW k \in Kept(txn[v].user)', txn'[v].user = txn[v].user,
                    subs'[k].expires # Null, txn'[v].exp # Null
             PROVE  txn'[v].exp >= subs'[k].expires + PLAN_DURATIONS[txn'[v].plan]
  <2>1. ASSUME NEW v \in Workers, txn'[v].pc = "activate" PROVE txn'[v].user = txn[v].user
    BY <1>1, <2>1, LocksToActivate, OnlyLocks
  <2>2. QED BY <2>1 DEF StacksOnKept, Kept
<1>2. CASE txn'[v] = txn[v]
  <2>1. txn[v].pc = "activate" /\ txn[v].user \in Users /\ txn[v].user \in txn[v].locks
    BY <1>2 DEF IInv, TxnInv, ClaimInv, ActivateInv
  <2>2. ASSUME NEW w \in Workers, CommitActivation(w), txn[w].user = txn[v].user PROVE FALSE
    <3>1. txn[w].pc = "activate" BY <2>2, GivesPc
    <3>2. txn[w].user \in txn[w].locks BY <3>1 DEF IInv, TxnInv, ActivateInv
    <3>3. v = w BY <2>1, <2>2, <3>2 DEF IInv, LocksExclusive
    <3>4. txn' = [txn EXCEPT ![w] = NoTxn] BY <2>2, ActivationWrites
    <3>5. QED BY <1>1, <1>2, <2>1, <3>3, <3>4 DEF NoTxn
  <2>3. k \in Kept(txn[v].user) /\ SameOrder(k)
    BY <2>1, <2>2, KeptMoves DEF RowsInv, JustGiven
  <2>4. QED BY <1>2, <2>1, <2>3 DEF StacksOnKept, SameOrder
<1>3. CASE LockUser(v)
  <2>1. txn[v].pc = "lockUser" /\ UNCHANGED <<subs, users, applied>>
    BY <1>3 DEF LockUser, history
  <2>2. /\ txn'[v].exp = StackedExpiry(users[txn[v].user], txn[v].plan, now)
        /\ txn'[v].live = LivePlan(users[txn[v].user], now) /\ txn'[v].plan = txn[v].plan
    BY <1>1, <1>3, LocksToActivate
  <2>3. txn[v].user \in Users /\ txn[v].plan \in PaidPlans
    BY <2>1 DEF IInv, TxnInv, ClaimInv
  <2>4. k \in Kept(txn[v].user) /\ subs[k].expires # Null /\ subs'[k].expires = subs[k].expires
    BY <2>1 DEF Kept
  <2>5. txn[v].plan \in TimedPlans
    BY <2>2, <2>3 DEF StackedExpiry, PaidPlans
  <2>6. QED BY <2>2, <2>3, <2>4, <2>5, LockStacks
<1>4. QED BY <1>1, <1>2, <1>3, OnlyLocks

LEMMA KeptInTurnInv ==
    ASSUME IInv, IInv', RowsInv, RowsInv', AppliedGiven, FinitelyMany, ExpiredOver,
           StacksOnKept, KeptInTurn, Next
    PROVE  KeptInTurn'
<1> USE StatusFacts
<1>1. subs \in [SubIds -> SubRow] /\ users \in [Users -> UserRow] BY DEF IInv, TypeOK
<1>2. SUFFICES ASSUME NEW u \in Users, NEW S \in SUBSET Kept(u)', S # {},
                      \A s \in S : subs'[s].plan \in TimedPlans
               PROVE  \E s \in S : subs'[s].expires >= Days(subs', S)
  BY DEF KeptInTurn, Duration, Days, OfPlan
<1>3. \A s \in S : \/ s \in Kept(u) /\ SameOrder(s)
                   \/ \E w \in Workers : JustGiven(w, s) /\ txn[w].user = u
  BY KeptMoves DEF RowsInv
<1>4. ASSUME NEW R, R \subseteq S, R # {}, \A s \in R : s \in Kept(u) /\ SameOrder(s)
      PROVE  /\ IsFiniteSet(R) /\ Days(subs, R) = Days(subs', R) /\ Days(subs, R) \in Nat
             /\ \E k \in R : subs[k].expires \in Nat /\ subs[k].expires >= Days(subs, R)
  <2>1. R \in SUBSET Kept(u) /\ R \in SUBSET applied BY <1>4 DEF Kept
  <2>2. IsFiniteSet(R) BY <2>1, FS_Subset DEF FinitelyMany
  <2>3. \A s \in R : subs[s].plan = subs'[s].plan /\ subs[s].plan \in TimedPlans
    BY <1>2, <1>4 DEF SameOrder
  <2>4. Days(subs, R) \in Nat /\ Days(subs', R) \in Nat BY <2>2, DaysNat
  <2>5. Days(subs, R) <= Days(subs', R) /\ Days(subs', R) <= Days(subs, R)
    BY <2>2, <2>3, DaysGrow
  <2>6. PICK k \in R : subs[k].expires >= Days(subs, R)
    BY <1>4, <2>1, <2>3, DurationIsDays DEF KeptInTurn
  <2>7. subs[k].expires \in Nat BY <2>1, <2>3, KeptEnds
  <2>8. QED BY <2>2, <2>4, <2>5, <2>6, <2>7
<1>5. CASE \A s \in S : s \in Kept(u) /\ SameOrder(s)
  <2>1. PICK k \in S : subs[k].expires >= Days(subs, S) BY <1>2, <1>4, <1>5
  <2>2. Days(subs, S) = Days(subs', S) BY <1>2, <1>4, <1>5
  <2>3. QED BY <1>5, <2>1, <2>2 DEF SameOrder
<1>6. ASSUME NEW w \in Workers, NEW x \in S, JustGiven(w, x), txn[w].user = u
      PROVE  \E s \in S : subs'[s].expires >= Days(subs', S)
  <2>1. CommitActivation(w) /\ txn[w].sub = x /\ x \notin applied /\ x \in applied'
    BY <1>2, <1>6 DEF JustGiven, Kept
  <2>2. /\ x \in SubIds /\ subs[x].plan = txn[w].plan /\ txn[w].plan \in PaidPlans
        /\ txn[w].at \in Nat /\ txn[w].live = LivePlan(users[u], txn[w].at)
        /\ txn[w].exp = StackedExpiry(users[u], txn[w].plan, txn[w].at)
        /\ PLAN_RANK[txn[w].plan] >= PLAN_RANK[txn[w].live]
    BY <1>6, <2>1, ActivationWrites
  <2>3. /\ subs'[x].plan = txn[w].plan /\ subs'[x].expires = txn[w].exp
    BY <2>1, ActivatedRow
  <2>4. txn[w].plan \in TimedPlans BY <1>2, <2>3
  <2>5. /\ PLAN_DURATIONS[txn[w].plan] \in Nat /\ txn[w].exp \in Nat
        /\ txn[w].exp >= PLAN_DURATIONS[txn[w].plan]
    <3>1. /\ PLAN_DURATIONS[txn[w].plan] \in Nat /\ txn[w].exp \in Nat
          /\ txn[w].exp >= txn[w].at + PLAN_DURATIONS[txn[w].plan]
      BY <1>1, <2>2, <2>4, StackedAbove
    <3>2. QED BY <2>2, <3>1
  <2>6. DEFINE R == S \ {x}
  <2>7. \A s \in R : s \in Kept(u) /\ SameOrder(s)
    BY <1>3, <1>6, OneGives DEF JustGiven, Gives
  <2>8. CASE R = {}
    <3>1. IsFiniteSet(R) /\ Days(subs', R) = 0 BY <2>8, FS_EmptySet, NoDays
    <3>2. S = R \cup {x} /\ x \notin R OBVIOUS
    <3>3. Days(subs', S) = Days(subs', R) + PLAN_DURATIONS[txn[w].plan]
      BY <2>3, <2>4, <3>1, <3>2, DaysAdd
    <3>4. QED BY <2>3, <2>5, <3>1, <3>3
  <2>9. CASE R # {}
    <3>1. /\ IsFiniteSet(R) /\ Days(subs, R) = Days(subs', R) /\ Days(subs, R) \in Nat
          /\ \E k \in R : subs[k].expires \in Nat /\ subs[k].expires >= Days(subs, R)
      BY <1>4, <2>7, <2>9
    <3>2. PICK k \in R : subs[k].expires \in Nat /\ subs[k].expires >= Days(subs, R)
      BY <3>1
    <3>3. txn[w].exp >= subs[k].expires + PLAN_DURATIONS[txn[w].plan]
      BY <1>6, <2>1, <2>2, <2>5, <2>7, <3>2, GivesPc DEF StacksOnKept
    <3>4. S = R \cup {x} /\ x \notin R OBVIOUS
    <3>5. Days(subs', S) = Days(subs', R) + PLAN_DURATIONS[txn[w].plan]
      BY <2>3, <2>4, <3>1, <3>4, DaysAdd
    <3>6. QED BY <2>3, <2>5, <3>1, <3>2, <3>3, <3>5
  <2>10. QED BY <2>8, <2>9
<1>7. QED BY <1>3, <1>5, <1>6

(* Where no admin grants, and either nothing is reversed or one request at *)
(* a time is served and lifetime plans come from coupons, paid time is     *)
(* never discarded: the orders given to a user and not reversed reach as   *)
(* far as their durations laid end to end (activate_subscription).         *)
THEOREM PaidTimeStays ==
    NoGrants /\ (NoReversals \/ (OneWorker /\ LifetimeByCoupon)) /\ Spec => []PaidTimeKept
<1> SUFFICES ASSUME NoGrants, NoReversals \/ (OneWorker /\ LifetimeByCoupon)
             PROVE  Spec => []PaidTimeKept
  OBVIOUS
<1> DEFINE Inv == FinitelyMany /\ ExpiredOver /\ StacksOnKept /\ KeptInTurn
<1>1. Init => Inv
  <2> SUFFICES ASSUME Init PROVE Inv
    OBVIOUS
  <2>1. StacksOnKept /\ applied = {} BY DEF Init, StacksOnKept, NoTxn
  <2>2. KeptInTurn BY <2>1 DEF KeptInTurn, Kept
  <2>3. ExpiredOver /\ {s \in SubIds : subs[s].status \in Held} = {}
    BY InitialRows DEF ExpiredOver, NoSub, Held, Claimable
  <2>4. QED BY <2>1, <2>2, <2>3, FS_EmptySet DEF FinitelyMany
<1>2. /\ IInv /\ IInv' /\ RowsInv /\ RowsInv' /\ AppliedGiven /\ AppliedCovered
      /\ Inv /\ [Next]_vars
      => Inv'
  <2> SUFFICES ASSUME IInv, IInv', RowsInv, RowsInv', AppliedGiven, AppliedCovered, Inv,
                      [Next]_vars
               PROVE  Inv'
    OBVIOUS
  <2>1. CASE Next
    BY <2>1, FinitelyManyInv, ExpiredOverInv, StacksOnKeptInv, KeptInTurnInv DEF RowsInv
  <2>2. CASE UNCHANGED vars
    <3>1. FinitelyMany' /\ ExpiredOver' BY <2>2 DEF vars, history, FinitelyMany, ExpiredOver
    <3>2. \A u \in Users : Kept(u)' = Kept(u) BY <2>2 DEF vars, history, Kept
    <3>3. StacksOnKept' BY <2>2 DEF vars, history, StacksOnKept, Kept
    <3>4. KeptInTurn' BY <2>2, <3>2 DEF vars, history, KeptInTurn, Duration
    <3>5. QED BY <3>1, <3>3, <3>4
  <2>3. QED BY <2>1, <2>2
<1>3. IInv /\ Inv => PaidTimeKept
  <2> SUFFICES ASSUME IInv, KeptInTurn, NEW u \in Users, Kept(u) # {},
                      \A s \in SubIds : subs[s].user = u => subs[s].plan # "lifetime"
               PROVE  \E s \in Kept(u) : subs[s].expires >= Duration(Kept(u))
    BY DEF PaidTimeKept
  <2>1. \A s \in Kept(u) : subs[s].plan \in TimedPlans
    <3>1. ASSUME NEW s \in Kept(u)
          PROVE  s \in SubIds /\ subs[s].user = u /\ subs[s].status \in Held \cup {"expired"}
      BY <3>1, StatusFacts DEF Kept
    <3>2. QED BY <3>1 DEF IInv, RowsSound, Held, PaidPlans
  <2>2. QED BY <2>1 DEF KeptInTurn
<1>4. Spec => [](AppliedGiven /\ AppliedCovered)
  <2>1. CASE NoReversals BY <2>1, CoveredUnreversed
  <2>2. CASE OneWorker /\ LifetimeByCoupon BY <2>2, CoveredSerial
  <2>3. QED BY <2>1, <2>2
<1>5. QED BY <1>1, <1>2, <1>3, <1>4, Inductive, RowsKnown, PTL DEF Spec

=============================================================================
