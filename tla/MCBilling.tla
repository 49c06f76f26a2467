----------------------------- MODULE MCBilling -----------------------------
(***************************************************************************)
(* Instances of Billing for TLC.                                           *)
(***************************************************************************)
EXTENDS BillingInvariant, TLC

CONSTANTS w1, w2, w3, u1, u2, o1, o2, o3, g1, c1

Owned == [c \in Coupons |-> u1]

Symmetry == Permutations(Workers) \cup Permutations(Orders)
=============================================================================
