-------------------------------- MODULE Stellar --------------------------------
(***************************************************************************)
(* What the platform reads from the Stellar network about incoming         *)
(* payments.  The payments received so far are a sequence: the position of *)
(* a payment stands for its transaction hash and, because Horizon pages in *)
(* ledger order, for its paging token.  A payment carries a text memo and  *)
(* the amount of the expected asset it moves to the receiving account (0   *)
(* when it has no such payment operation).  0 is the null hash.            *)
(***************************************************************************)
EXTENDS Naturals, Sequences

NoTx == 0

Payment(Memos, Amounts) == [memo : Memos, amount : Amounts]

(***************************************************************************)
(* verifyPayment: the transaction exists, its memo is the (truncated) memo *)
(* the order expects, and it moves at least the minimum amount of the      *)
(* expected asset to the receiving account.                                *)
(***************************************************************************)
VerifyPayment(chain, txHash, memo, minAmount) ==
  /\ txHash \in 1..Len(chain)
  /\ chain[txHash].memo = memo
  /\ chain[txHash].amount >= minAmount

================================================================================
