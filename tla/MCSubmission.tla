---------------------------- MODULE MCSubmission ----------------------------
(* Instances of Submission for TLC. *)
EXTENDS Submission, TLC

CONSTANTS u1, sql, dsa, pandas, r1, r2, r3

KindOf == [p \in Problems |-> CASE p = sql -> "sql" [] p = dsa -> "python_dsa"
                                [] OTHER -> "python"]

Symmetry == Permutations(Requests)
=============================================================================
