----------------------------- MODULE MCSubmission ------------------------------
(***************************************************************************)
(* An instance of Submission for TLC: the page's payment, and API clients  *)
(* that send one key with two bodies to one route and to the other.        *)
(***************************************************************************)
EXTENDS SubmissionCorrectness, TLC

CONSTANTS checkout, trades, key, mine, yours

MCOtherCalls ==
  {[scope |-> checkout, key |-> key, body |-> yours],
   [scope |-> checkout, key |-> key, body |-> mine],
   [scope |-> trades, key |-> key, body |-> yours]}

Symmetry == Permutations(Requests)

================================================================================
