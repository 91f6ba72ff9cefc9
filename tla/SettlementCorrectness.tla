------------------------- MODULE SettlementCorrectness -------------------------
(***************************************************************************)
(* What Settlement is checked and proved to satisfy.                       *)
(***************************************************************************)
EXTENDS Settlement

(* Every variable keeps its type; the watcher never reads past the chain.  *)
TypeOK ==
  /\ chain \in Seq(Payment(Memos, Amounts))
  /\ order \in [Orders -> OrderRow]
  /\ outside \in [Orders -> Outside]
  /\ referral \in [Players -> Referral]
  /\ job \in Jobs
  /\ call \in [Callers -> Call]
  /\ \A c \in Callers : call[c].at # "idle" => call[c].order \in Orders
  /\ poll \in [Pollers -> Poll]
  /\ \A p \in Pollers : poll[p].next \in 0..Len(chain)
  /\ cursor \in 0..Len(chain)
  /\ faults \in 0..MaxFaults

(* A confirmed payment with the order's memo that covers the order.        *)
Covers(t, o) ==
  /\ t \in 1..Len(chain)
  /\ chain[t].memo = Memo[o]
  /\ chain[t].amount >= Due[o]

(* Nothing has been recorded or sent for the order.                        *)
Untouched(o) ==
  /\ order[o].paymentStatus = "PENDING"
  /\ order[o].saleIn = 0 /\ order[o].payoutOut = 0 /\ order[o].refundOut = 0
  /\ outside[o] = [payout |-> 0, refund |-> 0, item |-> 0]

(* settlement.ts, all workers: an order that is PAID or REFUNDED, has a    *)
(* ledger entry, or for which a payout, an item or a refund has left the   *)
(* platform, holds the hash of a payment on chain that covers it.          *)
SettledIsBacked ==
  \A o \in Orders : IF order[o].stellarTxHash = NoTx
                      THEN Untouched(o)
                      ELSE Covers(order[o].stellarTxHash, o)

(* settlement.ts: what a call has verified still covers its order when it  *)
(* commits.                                                                *)
VerifiedIsCovered ==
  \A c \in Callers :
    call[c].at \in {"verified", "written"} => Covers(call[c].tx, call[c].order)

(* settlement.ts: an open transaction holds its hash and its order for     *)
(* itself until it commits.                                                *)
WrittenIsFree ==
  \A c \in Callers : call[c].at = "written" =>
    /\ ~HeldByAnother(call[c].tx, call[c].order)
    /\ \A d \in Callers \ {c} :
         call[d].at = "written" => /\ call[d].tx # call[c].tx
                                   /\ call[d].order # call[c].order

(* settlement.ts, all workers: whoever works for an order after the commit *)
(* works for a settled one, and a refund is recorded only after it is sent. *)
CallsAreSettled ==
  \A c \in Callers :
    call[c].at \in {"settled", "follow", "post", "record"}
      => order[call[c].order].stellarTxHash # NoTx

JobsAreSettled ==
  \A o \in Orders :
    /\ \A q \in {"payout", "webhook", "refund"} :
         job[q][o] # "none" => order[o].stellarTxHash # NoTx
    /\ job["refund"][o] = "record" => outside[o].refund > 0

(* The inductive invariant behind SettledIsBacked and RefinesSale.         *)
BackedInv ==
  /\ TypeOK
  /\ VerifiedIsCovered /\ WrittenIsFree /\ CallsAreSettled /\ JobsAreSettled
  /\ SettledIsBacked

(* settlement.ts replay guard and unique index: no payment settles two     *)
(* orders, even when their memos are equal after truncation and two calls  *)
(* verify at the same time.                                                *)
OnePaymentOneOrder ==
  \A o, other \in Orders :
    /\ order[o].stellarTxHash = order[other].stellarTxHash
    /\ order[o].stellarTxHash # NoTx
    => o = other

(* payout.ts, refund.ts: a PAYOUT_OUT or REFUND ledger entry always has a  *)
(* payment of its own on the network, also when workers die between the    *)
(* two and the job runs again.                                             *)
LedgerIsOnChain ==
  \A o \in Orders : /\ order[o].payoutOut <= outside[o].payout
                    /\ order[o].refundOut <= outside[o].refund

(* webhook-delivery.ts, mock-webhook.ts: an order is DELIVERED only if the *)
(* game has acted on its purchase.completed webhook.                       *)
DeliveredWasGranted ==
  \A o \in Orders : order[o].deliveryStatus = "DELIVERED" => outside[o].item > 0

(* refund.ts: a REFUNDED order has its REFUND ledger entry, and a refund   *)
(* is only ever sent after a delivery of the order has been attempted.     *)
RefundIsAccounted ==
  \A o \in Orders :
    /\ order[o].paymentStatus = "REFUNDED" => order[o].refundOut > 0
    /\ outside[o].refund > 0 => order[o].delivery

(* The referral of the buyer qualifies at the settlement c commits.        *)
RewardIsDue(c) ==
  LET o == call[c].order
      p == Buyer[o]
  IN /\ referral[p].status = "PENDING" /\ referral'[p].status = "QUALIFIED"
     /\ referral'[p].qualifyingOrder = o
     /\ order'[o].saleIn = order[o].saleIn + 1

(* settlement.ts referral branch: a reward falls due only when a PENDING   *)
(* referral qualifies, at the settlement of an order of its referee; so it *)
(* is due once per referral, also when calls race to settle.               *)
RewardDueOnce ==
  [][/\ \A c \in Callers :
          call'[c].at = "settled" /\ "reward" \in call'[c].todo
            => call'[c] = call[c] \/ RewardIsDue(c)
     /\ \A p \in Players :
          referral[p].status = "PENDING" /\ referral'[p].status # "PENDING"
            => \E c \in Callers : call'[c].at = "settled" /\ RewardIsDue(c)]_vars

(* stellar-watcher.ts: while no fetch and no call fails, no payment behind *)
(* the cursor covers an order that is still PENDING: none is missed.       *)
CursorCovers ==
  \A o \in Orders, t \in 1..cursor :
    Covers(t, o) => order[o].paymentStatus # "PENDING"

(* settlement.ts re-enqueueing, payout.ts, refund.ts: an order is paid out *)
(* once and refunded once, and one time more at most for each failure (a   *)
(* stall after the send, a finished job that its queue has forgotten),     *)
(* however many calls race to settle it.                                   *)
TransfersBounded ==
  \A o \in Orders : outside[o].payout <= 1 + faults /\ outside[o].refund <= 1 + faults

(* payout.ts, refund.ts, webhook-delivery.ts: a worker that is about to    *)
(* record a transfer or a delivery has made it, and a refund job exists    *)
(* only for an order whose delivery has been attempted.                    *)
Owed(q, o) == IF job[q][o] = "record" THEN 1 ELSE 0

TransfersPrecede(o) ==
  /\ order[o].payoutOut + Owed("payout", o) <= outside[o].payout
  /\ order[o].refundOut + Owed("refund", o) <= outside[o].refund
  /\ order[o].paymentStatus = "REFUNDED" => order[o].refundOut > 0

DeliveryPrecedes(o) ==
  /\ \/ order[o].deliveryStatus = "DELIVERED"
     \/ job["webhook"][o] = "acked"
     => outside[o].item > 0
  /\ \/ job["webhook"][o] \in {"post", "acked", "nacked", "addRefund"}
     \/ job["refund"][o] # "none"
     \/ outside[o].refund > 0
     => order[o].delivery

(* mock-webhook.ts: the fast path records what the game has accepted.      *)
GrantPrecedes ==
  \A c \in Callers : call[c].at = "record" => outside[call[c].order].item > 0

(* The inductive invariant behind LedgerIsOnChain, DeliveredWasGranted and *)
(* RefundIsAccounted.                                                      *)
EffectsInv ==
  /\ TypeOK
  /\ \A o \in Orders : TransfersPrecede(o) /\ DeliveryPrecedes(o)
  /\ GrantPrecedes

(* payout.ts, refund.ts: a job that has not sent yet makes up with its next *)
(* transfer for one failure less.  The inductive invariant behind          *)
(* TransfersBounded.                                                       *)
SentAtMost(q, o) ==
  IF job[q][o] \in {"none", "waiting", "send"} THEN faults ELSE faults + 1

SentOnce(o) == /\ outside[o].payout <= SentAtMost("payout", o)
               /\ outside[o].refund <= SentAtMost("refund", o)

OnceInv == TypeOK /\ \A o \in Orders : SentOnce(o)

(* stellar-watcher.ts: a payment of the page of a poll job that covers a   *)
(* pending order is still to be matched, to be advanced, or is the one its *)
(* call works on.                                                          *)
WorksOn(p, o, t) ==
  /\ call[p].at \in {"read", "verified", "written"}
  /\ call[p].order = o /\ call[p].tx = t

PollCovers(p) ==
  \A o \in Pending, t \in 1..poll[p].next :
    Covers(t, o) =>
      \/ poll[p].at = "fetched" /\ t \in poll[p].seen
      \/ poll[p].at = "advancing" /\ (<<o, t>> \in poll[p].todo \/ WorksOn(p, o, t))

(* No two orders have the same memo.                                       *)
MemosDistinct == \A o, other \in Orders : Memo[o] = Memo[other] => o = other

(* The inductive invariant behind CursorCovers.                            *)
CursorInv ==
  /\ BackedInv
  /\ faults = 0 => CursorCovers /\ \A p \in Pollers : PollCovers(p)

(* stellar-watcher.ts: a payment that covers an order gets it settled,     *)
(* without any help of the buyer's browser.                                *)
PaymentSettles ==
  \A o \in Orders :
    (\E t \in 1..MaxPayments : Covers(t, o))
      ~> (order[o].paymentStatus # "PENDING")

(* SPEC.md of the delivery: "with exponential backoff (e.g. 5 attempts)",  *)
(* then a refund.  So a PAID order is eventually DELIVERED or its buyer is *)
(* refunded, whatever WEBHOOK_MAX_ATTEMPTS is.  Not so in the code when it *)
(* is above 1: a first failure is stored with a next attempt, the job has  *)
(* failed for good, nothing adds another, and no refund is due.            *)
PaidIsResolved ==
  \A o \in Orders :
    (order[o].paymentStatus = "PAID")
      ~> (\/ order[o].deliveryStatus = "DELIVERED"
          \/ order[o].refundOut > 0)

(* webhook-delivery.ts, refund.ts: only where WEBHOOK_MAX_ATTEMPTS is 1    *)
(* (it is 5 unless set) is a PAID order eventually DELIVERED or its buyer  *)
(* refunded; its status may say PAID again afterwards.                     *)
ResolvedIfOneAttempt == MaxAttempts = 1 => PaidIsResolved

(* payout.ts: the studio of a PAID order is eventually paid, unless the    *)
(* buyer is refunded.                                                      *)
PaidIsPaidOut ==
  \A o \in Wallets :
    (order[o].paymentStatus = "PAID")
      ~> (order[o].payoutOut > 0 \/ order[o].refundOut > 0)

--------------------------------------------------------------------------------
(* The refinement mapping: the statuses and hashes of the orders, and what *)
(* has been released for an order, read off what has left the platform.    *)
released ==
  [o \in Orders |-> (IF outside[o].payout > 0 THEN {"payout"} ELSE {})
                 \cup (IF outside[o].refund > 0 THEN {"refund"} ELSE {})
                 \cup (IF outside[o].item > 0 THEN {"item"} ELSE {})]

S == INSTANCE Sale WITH
       paymentStatus <- [o \in Orders |-> order[o].paymentStatus],
       stellarTxHash <- [o \in Orders |-> order[o].stellarTxHash]

(* Settlement implements Sale: every step settles, releases or refunds as  *)
(* Sale allows, or changes nothing Sale can see.                           *)
RefinesSale == S!Spec

================================================================================
