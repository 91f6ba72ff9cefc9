------------------------------ MODULE MCOrderPage -------------------------------
(***************************************************************************)
(* Instances of OrderPage for TLC.                                         *)
(***************************************************************************)
EXTENDS OrderPageCorrectness

================================================================================
