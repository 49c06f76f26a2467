------------------------------ MODULE Coupons ------------------------------
(***************************************************************************)
(* The life of lifetime coupons: generated in the CMS or by a script,      *)
(* refreshed, revoked, checked and redeemed (generate_coupons_for_users,   *)
(* admin/router.py, coupons/router.py, generate_coupons.py). What a        *)
(* redemption does to the plan of its user is in Billing.                  *)
(***************************************************************************)
EXTENDS Platform

CONSTANTS
    MaxCodes,   \* bound: codes that generate_coupon_code draws
    Mailboxes,  \* e-mail addresses, trimmed and in lower case
    Registered, \* those with an account
    Clerks,     \* generations in progress at once
    Validity,   \* days a coupon may be given
    Horizon     \* bound on the clock

ASSUME CouponsAssumption ==
    /\ MaxCodes \in Nat /\ Null \notin Mailboxes /\ Null \notin 1..MaxCodes /\ Registered \subseteq Mailboxes
    /\ Validity \subseteq Nat /\ Horizon \in Nat

Codes == 1..MaxCodes    \* in the order in which they are drawn first

VARIABLES
    drawn,      \* how many codes were drawn
    coupons,    \* core.coupons
    lifetime,   \* accounts whose plan is lifetime
    clerk,      \* a generation: the addresses left, the one read, the expiry asked for
    today

couponVars == <<drawn, coupons, lifetime, clerk, today>>

----------------------------------------------------------------------------
NoCoupon == [email |-> Null, used |-> FALSE, expires |-> 0]
NoClerk  == [left |-> {}, email |-> Null, found |-> Null, expires |-> 0, script |-> FALSE]

Issued(c)   == coupons[c].email # Null
UnusedOf(e) == {c \in Codes : Issued(c) /\ coupons[c].email = e /\ ~coupons[c].used}

(* SELECT ... WHERE LOWER(email) = $1 AND is_used = FALSE. Mutated form:   *)
(* an expired coupon is overlooked.                                        *)
FindLive(e) == {c \in UnusedOf(e) : coupons[c].expires >= today}
Find(e)     == UnusedOf(e)

CouponsInit ==
    /\ drawn = 0
    /\ coupons = [c \in Codes |-> NoCoupon]
    /\ lifetime = {}
    /\ clerk = [k \in Clerks |-> NoClerk]
    /\ today = 0

----------------------------------------------------------------------------
(* generate_admin_coupons, or the script: the addresses named, or every    *)
(* account without the lifetime plan.                                      *)
BeginGenerate(k, named, days, script) ==
    /\ clerk[k] = NoClerk
    /\ LET whom == IF named = {} THEN Registered \ lifetime ELSE named IN
       /\ whom # {}
       /\ clerk' = [clerk EXCEPT ![k] = [NoClerk EXCEPT
                       !.left = whom, !.expires = today + days, !.script = script]]
    /\ UNCHANGED <<drawn, coupons, lifetime, today>>

ReadUnused(k, e) ==
    /\ clerk[k].email = Null /\ e \in clerk[k].left
    /\ \E c \in IF Find(e) = {} THEN {Null} ELSE Find(e) :
           clerk' = [clerk EXCEPT ![k].email = e, ![k].found = c, ![k].left = @ \ {e}]
    /\ UNCHANGED <<drawn, coupons, lifetime, today>>

Served(k) == clerk' = [clerk EXCEPT ![k] =
                IF @.left = {} THEN NoClerk ELSE [@ EXCEPT !.email = Null, !.found = Null]]

(* The CMS refreshes the expiry of a coupon found, if it is still there;   *)
(* the script leaves it alone.                                             *)
Refresh(k) ==
    LET c == clerk[k].found IN
    /\ c # Null
    /\ coupons' = IF ~clerk[k].script /\ Issued(c)
                  THEN [coupons EXCEPT ![c].expires = clerk[k].expires] ELSE coupons
    /\ Served(k)
    /\ UNCHANGED <<drawn, lifetime, today>>

(* A code that is taken already is refreshed in place, whoever has it (the *)
(* script: left alone).                                                    *)
InsertCoupon(k, c) ==
    /\ clerk[k].email # Null /\ clerk[k].found = Null
    /\ c <= drawn + 1
    /\ drawn' = IF c > drawn THEN c ELSE drawn
    /\ coupons' = IF ~Issued(c)
                  THEN [coupons EXCEPT ![c] = [email |-> clerk[k].email, used |-> FALSE,
                                               expires |-> clerk[k].expires]]
                  ELSE IF clerk[k].script THEN coupons
                       ELSE [coupons EXCEPT ![c].expires = clerk[k].expires]
    /\ Served(k)
    /\ UNCHANGED <<lifetime, today>>

(* delete_admin_coupon: unused ones only.                                  *)
Revoke(c) ==
    /\ Issued(c) /\ ~coupons[c].used
    /\ coupons' = [coupons EXCEPT ![c] = NoCoupon]
    /\ UNCHANGED <<drawn, lifetime, clerk, today>>

(* redeem_coupon, one transaction with the row locked.                     *)
MayRedeem(e, c) == Issued(c) /\ ~coupons[c].used /\ coupons[c].expires >= today
                   /\ coupons[c].email = e

Redeem(e, c) ==
    /\ e \in Registered
    /\ MayRedeem(e, c)
    /\ coupons' = [coupons EXCEPT ![c].used = TRUE]
    /\ lifetime' = lifetime \cup {e}
    /\ UNCHANGED <<drawn, clerk, today>>

(* The plan may end otherwise: a grant of another plan, a refund.          *)
LosePlan(e) ==
    /\ lifetime' = lifetime \ {e}
    /\ UNCHANGED <<drawn, coupons, clerk, today>>

CouponTick ==
    /\ today < Horizon
    /\ today' = today + 1
    /\ UNCHANGED <<drawn, coupons, lifetime, clerk>>

CouponsNext ==
    \/ \E k \in Clerks, named \in SUBSET Mailboxes, days \in Validity, script \in BOOLEAN :
           BeginGenerate(k, named, days, script)
    \/ \E k \in Clerks, e \in Mailboxes : ReadUnused(k, e)
    \/ \E k \in Clerks : Refresh(k)
    \/ \E k \in Clerks, c \in Codes : InsertCoupon(k, c)
    \/ \E c \in Codes : Revoke(c)
    \/ \E e \in Mailboxes, c \in Codes : Redeem(e, c)
    \/ \E e \in Mailboxes : LosePlan(e)
    \/ CouponTick

CouponsSpec == CouponsInit /\ [][CouponsNext]_couponVars

----------------------------------------------------------------------------
CouponsTypeOK ==
    /\ drawn \in 0..MaxCodes
    /\ coupons \in [Codes -> [email : Mailboxes \cup {Null}, used : BOOLEAN, expires : Nat]]
    /\ lifetime \subseteq Registered
    /\ clerk \in [Clerks -> [left : SUBSET Mailboxes, email : Mailboxes \cup {Null},
                             found : Codes \cup {Null}, expires : Nat, script : BOOLEAN]]
    /\ today \in Nat

(* However often coupons are generated, refreshed, revoked and redeemed, an*)
(* address has at most one coupon left to use, as long as one generation   *)
(* runs at a time: an expired one is refreshed, never joined by a second   *)
(* (generate_coupons_for_users).                                           *)
OneUnusedPerEmail == \A e \in Mailboxes : Cardinality(UnusedOf(e)) <= 1
=============================================================================
