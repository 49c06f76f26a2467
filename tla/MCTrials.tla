------------------------------ MODULE MCTrials ------------------------------
(* Instances of Trials for TLC: a and b are aliases of one mailbox. *)
EXTENDS Trials, TLC

CONSTANTS a, b, c, w1, w2, w3, w4

Aliases == [u \in Accounts |-> IF u = c THEN 2 ELSE 1]

Symmetry == Permutations(Signups) \cup Permutations(Admins)
=============================================================================
