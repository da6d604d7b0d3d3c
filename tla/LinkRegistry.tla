---------------------------- MODULE LinkRegistry ----------------------------
(***************************************************************************)
(* What the invitation codes promise: a code is redeemed in one step, by   *)
(* one Super App user, while it is open, and binds its parent for good.    *)
(* Specification only; ParentLink implements it.                           *)
(***************************************************************************)
CONSTANTS Codes, Parents, Schools, Users,
          ParentOf, SchoolOf, \* the parent and the school a code is made for
          NoLink, NoUser

VARIABLES invitation, \* "new", then "open", then "closed"
          redeemer,   \* who redeemed a code
          link        \* the Super App user and the school a parent is linked to

vars == <<invitation, redeemer, link>>

Init ==
    /\ invitation = [c \in Codes |-> "new"]
    /\ redeemer = [c \in Codes |-> NoUser]
    /\ link = [p \in Parents |-> NoLink]

Issue(c) ==
    /\ invitation[c] = "new"
    /\ invitation' = [invitation EXCEPT ![c] = "open"]
    /\ UNCHANGED <<redeemer, link>>

Close(S) ==
    /\ \A c \in S : invitation[c] = "open"
    /\ invitation' = [c \in Codes |-> IF c \in S THEN "closed" ELSE invitation[c]]
    /\ UNCHANGED <<redeemer, link>>

Redeem(c, u) ==
    /\ invitation[c] = "open"
    /\ link[ParentOf[c]] = NoLink
    /\ \A p \in Parents : link[p] # [user |-> u, school |-> SchoolOf[c]]
    /\ invitation' = [invitation EXCEPT ![c] = "closed"]
    /\ redeemer' = [redeemer EXCEPT ![c] = u]
    /\ link' = [link EXCEPT ![ParentOf[c]] = [user |-> u, school |-> SchoolOf[c]]]

Next ==
    \/ \E c \in Codes : Issue(c)
    \/ \E S \in SUBSET Codes : Close(S)
    \/ \E c \in Codes, u \in Users : Redeem(c, u)

Spec == Init /\ [][Next]_vars
=============================================================================
