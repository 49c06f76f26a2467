------------------------------ MODULE MCSignUp ------------------------------
(* Instances of SignUp for TLC: A and a are two spellings of one mailbox.  *)
EXTENDS SignUp, TLC

CONSTANTS A, a, b, w1, w2, w3, s1, s2, g1, g2

LowerCase == [e \in Spellings |-> IF e = A THEN a ELSE e]

Symmetry == Permutations(Workers) \cup Permutations(Identities)
=============================================================================
