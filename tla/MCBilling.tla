------------------------------ MODULE MCBilling ------------------------------
(***************************************************************************)
(* Instances of Billing for TLC: one request buys two months, the others   *)
(* one.                                                                    *)
(***************************************************************************)
EXTENDS Billing, TLC

CONSTANTS r1, r2

TwoMonthsAndOne == [r \in Requests |-> IF r = r1 THEN 2 ELSE 1]

HandlerSymmetry == Permutations(Handlers)
=============================================================================
