------------------------------- MODULE MCAccess --------------------------------
(***************************************************************************)
(* Instances of Access for TLC.                                            *)
(***************************************************************************)
EXTENDS AccessCorrectness, TLC

Symmetry == Permutations(Tabs)

================================================================================
