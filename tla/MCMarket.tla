------------------------------- MODULE MCMarket --------------------------------
(***************************************************************************)
(* Instances of Market for TLC: a seller with two items who lists one and  *)
(* two buyers.                                                             *)
(***************************************************************************)
EXTENDS MarketCorrectness, TLC

CONSTANTS seller1, buyer1, buyer2, t1, t2, m1, m2

MCOwned == [p \in Players |-> IF p = seller1 THEN 2 ELSE 0]
MCPrice == [l \in Listings |-> 1]
MCMemo == [t \in Trades |-> IF t = t1 THEN m1 ELSE m2]

Symmetry == Permutations(Calls) \cup Permutations({buyer1, buyer2})

================================================================================
