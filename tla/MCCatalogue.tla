------------------------------ MODULE MCCatalogue -------------------------------
(***************************************************************************)
(* Instances of Catalogue for TLC.                                         *)
(***************************************************************************)
EXTENDS CatalogueCorrectness, TLC

Symmetry == Permutations(Items) \cup Permutations(Levels) \cup Permutations(Workers)

================================================================================
