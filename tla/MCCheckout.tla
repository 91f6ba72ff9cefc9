------------------------------ MODULE MCCheckout -------------------------------
(***************************************************************************)
(* Instances of Checkout for TLC: an automatic first-purchase promotion    *)
(* and one behind a coupon code for item i, one use each; one player, two  *)
(* items.                                                                  *)
(***************************************************************************)
EXTENDS CheckoutCorrectness, TLC

CONSTANTS a, i, j, welcome, coupon, summer

MCCodeOf == [p \in Promos |-> IF p = coupon THEN summer ELSE NoCode]
MCLimit == [p \in Promos |-> 1]
MCDiscount == [p \in Promos |-> [x \in Items |-> IF p = coupon /\ x = j THEN 0 ELSE 1]]

\* Player a has two PENDING orders for the item; the older used the promotion.
MCLegacy == <<[status |-> "PENDING", key |-> <<a, i>>, promo |-> welcome],
              [status |-> "PENDING", key |-> <<a, i>>, promo |-> NoPromo]>>

MCNoLegacy == <<>>

Symmetry == Permutations(Quotes)

================================================================================
