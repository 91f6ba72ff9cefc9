--------------------------------- MODULE Sale ----------------------------------
(***************************************************************************)
(* What the settlement of primary sales promises, whatever the order in    *)
(* which its processes run and wherever they fail: an order is settled     *)
(* only against a confirmed payment that carries its memo, covers its      *)
(* amount and settles no other order; and nothing of value (the payout of  *)
(* the studio, the item, a refund) is released for an order that was never *)
(* settled.  An order becomes REFUNDED only after a refund was released.   *)
(* Settlement implements this specification.                               *)
(***************************************************************************)
EXTENDS Naturals, Sequences, Stellar

CONSTANTS Orders, Memos, Memo, Amounts, Due, MaxPayments

VARIABLES chain, paymentStatus, stellarTxHash, released

saleVars == <<chain, paymentStatus, stellarTxHash, released>>

Kinds == {"payout", "item", "refund"}

Init ==
  /\ chain = << >>
  /\ paymentStatus = [o \in Orders |-> "PENDING"]
  /\ stellarTxHash = [o \in Orders |-> NoTx]
  /\ released = [o \in Orders |-> {}]

Receive(memo, amount) ==
  /\ Len(chain) < MaxPayments
  /\ chain' = Append(chain, [memo |-> memo, amount |-> amount])
  /\ UNCHANGED <<paymentStatus, stellarTxHash, released>>

(* An order may be settled more than once, each time by such a payment.    *)
Settle(o, t) ==
  /\ t \in 1..Len(chain)
  /\ chain[t].memo = Memo[o]
  /\ chain[t].amount >= Due[o]
  /\ \A other \in Orders \ {o} : stellarTxHash[other] # t
  /\ paymentStatus' = [paymentStatus EXCEPT ![o] = "PAID"]
  /\ stellarTxHash' = [stellarTxHash EXCEPT ![o] = t]
  /\ UNCHANGED <<chain, released>>

Release(o, kind) ==
  /\ stellarTxHash[o] # NoTx
  /\ released' = [released EXCEPT ![o] = @ \cup {kind}]
  /\ UNCHANGED <<chain, paymentStatus, stellarTxHash>>

Refund(o) ==
  /\ "refund" \in released[o]
  /\ paymentStatus' = [paymentStatus EXCEPT ![o] = "REFUNDED"]
  /\ UNCHANGED <<chain, stellarTxHash, released>>

Next ==
  \/ \E memo \in Memos, amount \in Amounts : Receive(memo, amount)
  \/ \E o \in Orders : \/ \E t \in 1..Len(chain) : Settle(o, t)
                       \/ \E kind \in Kinds : Release(o, kind)
                       \/ Refund(o)

Spec == Init /\ [][Next]_saleVars

================================================================================
