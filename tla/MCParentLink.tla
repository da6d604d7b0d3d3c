---------------------------- MODULE MCParentLink ----------------------------
(***************************************************************************)
(* Instances of ParentLink for TLC: two codes of one parent, and one of    *)
(* another parent at the same school.                                      *)
(***************************************************************************)
EXTENDS ParentLink, TLC

CONSTANTS c1, c2, c3, p1, p2, s1

TwoAndOne == [c \in Codes |-> IF c = c3 THEN p2 ELSE p1]
OneSchool == [c \in Codes |-> s1]

Symmetry ==
    Permutations(Handlers) \cup Permutations(Users) \cup Permutations({c1, c2})
    \cup Permutations(Admins)
=============================================================================
