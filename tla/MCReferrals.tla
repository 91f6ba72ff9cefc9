------------------------------ MODULE MCReferrals ------------------------------
(***************************************************************************)
(* Instances of Referrals for TLC: bob has two orders, ann none.           *)
(***************************************************************************)
EXTENDS ReferralsCorrectness

CONSTANTS ann, bob

BuyerDef == [o \in Orders |-> bob]

Symmetry ==
  Permutations(Codes) \cup Permutations(Orders) \cup Permutations(Requests)
    \cup Permutations(Calls) \cup Permutations(Workers)

================================================================================
