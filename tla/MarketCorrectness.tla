--------------------------- MODULE MarketCorrectness ---------------------------
(***************************************************************************)
(* What is promised of trades.                                             *)
(***************************************************************************)
EXTENDS Market

(* Every row, transaction and job has its shape.                           *)
TypeOK ==
  /\ chain \in Seq(Payment(Memos, Amounts))
  /\ inventory \in [Players -> Nat]
  /\ listing \in [Listings -> ListingRow]
  /\ trade \in [Trades -> TradeRow]
  /\ outside \in [Trades -> Outside]
  /\ quote \in [Players -> Listings \cup {NoListing}]
  /\ call \in [Calls -> Call]
  /\ job \in Jobs
  /\ faults \in 0..MaxFaults

Escrowed(t) == trade[t].status \notin {"NONE", "ESCROW_PENDING"}

(* A trade is taken for paid only by a payment into escrow that names it   *)
(* and covers its price, and it has its P2P_ESCROW_IN entry, whatever the  *)
(* client submitted and however verifications and workers interleave.      *)
EscrowIsBacked ==
  \A t \in Trades :
    Escrowed(t) =>
      /\ trade[t].escrowTxHash \in 1..Len(chain)
      /\ chain[trade[t].escrowTxHash].memo = Memo[t]
      /\ chain[trade[t].escrowTxHash].amount >= Price[trade[t].listing]
      /\ trade[t].escrowIn >= 1

(* Nothing leaves the platform or the seller's inventory for a trade whose *)
(* escrow is not in the books, also when the job runs before its           *)
(* verification commits or after it has rolled back.                       *)
ReleasedIsEscrowed ==
  \A t \in Trades : outside[t] # [item |-> 0, payout |-> 0, refund |-> 0] => Escrowed(t)

(* SPEC.md: P2P funds are released only after confirmed item transfer.     *)
(* Every payout of the seller has a transfer of its own, across stalls,    *)
(* lost answers and jobs added twice.                                      *)
ReleasedAfterTransfer ==
  \A t \in Trades : outside[t].payout <= outside[t].item

(* An item that has left its seller has been paid for, is about to be, or  *)
(* a failure is to blame.                                                  *)
ItemIsPaidFor ==
  \A t \in Trades :
    outside[t].item <= outside[t].payout
                       + (IF job.transfer[t] = "pay" THEN 1 ELSE 0) + faults

(* A trade has one outcome, however often it is submitted and verified: the *)
(* seller is paid once for one item, or the buyer is refunded once and the *)
(* seller keeps the item.  A failure (a stalled or forgotten job, a lost   *)
(* answer of the game) adds one payout, transfer or refund at most.        *)
OneOutcome ==
  \A t \in Trades :
    /\ outside[t].payout + outside[t].refund <= 1 + faults
    /\ outside[t].item + outside[t].refund <= 1 + faults

(* The ledger has an entry for every payout and refund of a trade that was *)
(* sent, but for the one being recorded and for those lost to failures.    *)
LedgerIsComplete ==
  \A t \in Trades :
    /\ outside[t].payout <= trade[t].payoutOut
                            + (IF job.transfer[t] = "record" THEN 1 ELSE 0) + faults
    /\ outside[t].refund <= trade[t].refundOut
                            + (IF job.refund[t] = "record" THEN 1 ELSE 0) + faults

Resolved(t) == trade[t].status \in {"COMPLETED", "REFUNDED"}

(* Without failures, the transfer job of a PAID trade ends in a payout or  *)
(* a refund on record, even when it has not yet been picked up.            *)
TransferEnds ==
  \A t \in Trades :
    trade[t].status = "PAID" /\ job.transfer[t] = "waiting" ~> Resolved(t) \/ faults > 0

(* SPEC.md: a confirmed escrow payment leads to the transfer of the item   *)
(* and the payout of the seller, or to an automatic refund of the buyer.   *)
EscrowIsResolved ==
  \A t \in Trades : trade[t].status = "PAID" ~> Resolved(t)

--------------------------------------------------------------------------------
(* The inductive invariant                                                 *)

\* A verification past Horizon has a payment that covers its trade.
CallsAreCovered ==
  \A c \in Calls : call[c].at # "idle" =>
    /\ call[c].trade \in Trades
    /\ trade[call[c].trade].status # "NONE"
    /\ call[c].at # "read" => Covers(call[c].trade, call[c].tx)

\* Rows that exist name rows that exist.
RowsAreLinked ==
  /\ \A t \in Trades : trade[t].status # "NONE" =>
       /\ trade[t].listing \in Listings
       /\ trade[t].buyer \in Players
       /\ listing[trade[t].listing].seller \in Players
  /\ \A p \in Players : quote[p] # NoListing => listing[quote[p]].seller \in Players
  /\ \A l \in Listings : listing[l].status # "NONE" => listing[l].seller \in Players

\* Jobs past their start exist for escrowed trades only.
JobsAreEscrowed ==
  \A t \in Trades :
    \/ job.transfer[t] \notin {"none", "waiting", "done"}
    \/ job.refund[t] # "none"
    => Escrowed(t)

\* Each payout follows a transfer of its own, which the job at "pay" still has.
TransfersLead ==
  \A t \in Trades :
    outside[t].payout + (IF job.transfer[t] = "pay" THEN 1 ELSE 0) <= outside[t].item

\* What the jobs of a trade may still add to its outcome.
Coming(t, stages) == (IF job.transfer[t] \in stages THEN 1 ELSE 0)
                     + (IF job.refund[t] = "waiting" THEN 1 ELSE 0)

\* The outcome that is coming counts like one that has come.
OutcomeIsReserved ==
  \A t \in Trades :
    /\ outside[t].payout + outside[t].refund
         + Coming(t, {"none", "waiting", "post", "addRefund", "pay"}) <= 1 + faults
    /\ outside[t].item + outside[t].refund
         + Coming(t, {"none", "waiting", "post", "addRefund"}) <= 1 + faults

MarketInv ==
  /\ TypeOK
  /\ CallsAreCovered
  /\ RowsAreLinked
  /\ EscrowIsBacked
  /\ JobsAreEscrowed
  /\ ReleasedIsEscrowed
  /\ TransfersLead
  /\ ItemIsPaidFor
  /\ OutcomeIsReserved
  /\ LedgerIsComplete

================================================================================
