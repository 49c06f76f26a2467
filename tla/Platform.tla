------------------------------ MODULE Platform ------------------------------
(* What the modules of the site's smaller components have in common.       *)
EXTENDS Integers, FiniteSets

CONSTANTS
    Workers,    \* requests served at once
    Users,
    Problems,   \* every id core.problems will ever have
    Null

ASSUME PlatformAssumption ==
    /\ IsFiniteSet(Workers)
    /\ Null \notin Users /\ Null \notin Problems
=============================================================================
