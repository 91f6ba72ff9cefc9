-------------------------------- MODULE Market ---------------------------------
(***************************************************************************)
(* The player-to-player market: listings, trades paid into the platform's  *)
(* escrow account, the transfer of the item by the game, and the payout of *)
(* the seller or the refund of the buyer.                                  *)
(*                                                                         *)
(* Concurrent trade quotes and executions of verifyAndAdvanceP2PTrade      *)
(* share the database with the p2p-settlement and refund workers.  Every   *)
(* database statement whose moment matters, every HTTP exchange and queue  *)
(* operation is a step; MaxFaults bounds how many of them fail.            *)
(***************************************************************************)
EXTENDS Integers, Sequences, Stellar, Queues

CONSTANTS
  Players, NoPlayer,   \* players, and a null player
  Listings, NoListing, \* ids of listings, and a null listing
  Price,               \* Price[l]: what listing l asks for
  Trades, NoTrade,     \* ids of trades, and a null trade
  Memo,                \* Memo[t]: the id of t truncated to a Stellar text memo
  Memos, Amounts,      \* what payments to the escrow account carry
  Calls,               \* concurrent executions of verifyAndAdvanceP2PTrade
  Owned,               \* Owned[p]: items player p has in the game at first
  MaxPayments,         \* bound: payments into escrow
  MaxFaults            \* bound: failures of processes and evictions of job ids

ASSUME ConstantsAssumption ==
  /\ NoPlayer \notin Players /\ NoListing \notin Listings /\ NoTrade \notin Trades
  /\ Price \in [Listings -> Nat]
  /\ Memo \in [Trades -> Memos]
  /\ Amounts \subseteq Nat
  /\ Owned \in [Players -> Nat]
  /\ MaxPayments \in Nat /\ MaxFaults \in Nat

VARIABLES
  chain,       \* payments the escrow account has received, in ledger order
  inventory,   \* the items each player has in the game
  listing,     \* the P2PListing rows
  trade,       \* the P2PTrade rows and their ledger entries
  outside,     \* what has left the platform, and the game, for each trade
  quote,       \* the listing each player's running quote has read
  call,        \* the transaction of each verification
  job,         \* the p2p-settlement, refund and webhook-delivery queues
  faults       \* failures and evictions so far

vars == <<chain, inventory, listing, trade, outside, quote, call, job, faults>>

ListingRow == [status : {"NONE", "ACTIVE", "LOCKED", "SOLD"},
               seller : Players \cup {NoPlayer}]

TradeRow == [status : {"NONE", "ESCROW_PENDING", "PAID", "COMPLETED", "REFUNDED"},
             listing : Listings \cup {NoListing}, buyer : Players \cup {NoPlayer},
             escrowTxHash : Nat,
             escrowIn : Nat, payoutOut : Nat, refundOut : Nat]  \* LedgerEntry rows by type

Outside == [item : Nat, payout : Nat, refund : Nat]

Jobs == [transfer : [Trades -> {"none", "waiting", "post", "pay", "record", "notify",
                                "addRefund", "done"}],
         refund : [Trades -> {"none", "waiting", "record", "done"}],
         webhook : [Trades -> {"none", "waiting"}]]

Call == [at : {"idle", "read", "verified", "written", "queued"},
         trade : Trades \cup {NoTrade}, tx : Nat]

NoCall == [at |-> "idle", trade |-> NoTrade, tx |-> NoTx]

Init ==
  /\ chain = << >>
  /\ inventory = Owned
  /\ listing = [l \in Listings |-> [status |-> "NONE", seller |-> NoPlayer]]
  /\ trade = [t \in Trades |->
       [status |-> "NONE", listing |-> NoListing, buyer |-> NoPlayer, escrowTxHash |-> NoTx,
        escrowIn |-> 0, payoutOut |-> 0, refundOut |-> 0]]
  /\ outside = [t \in Trades |-> [item |-> 0, payout |-> 0, refund |-> 0]]
  /\ quote = [p \in Players |-> NoListing]
  /\ call = [c \in Calls |-> NoCall]
  /\ LET empty == [t \in Trades |-> "none"]
     IN job = [transfer |-> empty, refund |-> empty, webhook |-> empty]
  /\ faults = 0

Fault == faults < MaxFaults /\ faults' = faults + 1

--------------------------------------------------------------------------------
(* Anybody may pay the escrow account, with any memo and amount.           *)
Pay(memo, amount) ==
  /\ Len(chain) < MaxPayments
  /\ chain' = Append(chain, [memo |-> memo, amount |-> amount])
  /\ UNCHANGED <<inventory, listing, trade, outside, quote, call, job, faults>>

(* The game takes an item away from a player, or he uses it up.            *)
Spend(p) ==
  /\ inventory[p] > 0
  /\ inventory' = [inventory EXCEPT ![p] = @ - 1]
  /\ UNCHANGED <<chain, listing, trade, outside, quote, call, job, faults>>

(* assertOwnsItem: the game says that the player has the item.             *)
Owns(p) == inventory[p] >= 1

(* createListing: other listings of the same item do not count against it. *)
CreateListing(p, l) ==
  /\ listing[l].status = "NONE"
  /\ Owns(p)
  /\ listing' = [listing EXCEPT ![l] = [status |-> "ACTIVE", seller |-> p]]
  /\ UNCHANGED <<chain, inventory, trade, outside, quote, call, job, faults>>

(* createTradeQuote: its checks, outside of any transaction.               *)
QuoteRead(p, l) ==
  /\ quote[p] = NoListing
  /\ listing[l].status = "ACTIVE"
  /\ listing[l].seller # p
  /\ quote' = [quote EXCEPT ![p] = l]
  /\ UNCHANGED <<chain, inventory, listing, trade, outside, call, job, faults>>

\* createTradeQuote: the transaction, whatever has become of the listing.
QuoteWrite(p, t) ==
  /\ quote[p] # NoListing
  /\ trade[t].status = "NONE"
  /\ listing' = [listing EXCEPT ![quote[p]].status = "LOCKED"]
  /\ trade' = [trade EXCEPT ![t].status = "ESCROW_PENDING", ![t].listing = quote[p],
                            ![t].buyer = p]
  /\ quote' = [quote EXCEPT ![p] = NoListing]
  /\ UNCHANGED <<chain, inventory, outside, call, job, faults>>

--------------------------------------------------------------------------------
(***************************************************************************)
(* verifyAndAdvanceP2PTrade: one READ COMMITTED transaction.               *)
(***************************************************************************)

\* Mutant: the amount is not compared with the price.
CoversAnyAmount(t, tx) == VerifyPayment(chain, tx, Memo[t], 0)

\* What Horizon confirms of a payment for trade t.
Covers(t, tx) == VerifyPayment(chain, tx, Memo[t], Price[trade[t].listing])

\* The trades that hold a hash; findFirst returns any one of them.
Holders(tx) == {t \in Trades : trade[t].escrowTxHash = tx}

\* Its UPDATE holds the row of the trade until the commit or rollback.
Locked(t) == \E c \in Calls : call[c].trade = t /\ call[c].at \in {"written", "queued"}

\* A trade that is not ESCROW_PENDING gives ALREADY and changes nothing.
Begin(c, t, tx) ==
  /\ call[c].at = "idle"
  /\ trade[t].status = "ESCROW_PENDING"
  /\ call' = [call EXCEPT ![c] = [at |-> "read", trade |-> t, tx |-> tx]]
  /\ UNCHANGED <<chain, inventory, listing, trade, outside, quote, job, faults>>

(* Horizon and the replay guard.  What Horizon confirms stays true, so     *)
(* only the moment of the guard's read matters.                            *)
Verify(c) ==
  /\ call[c].at = "read"
  /\ \/ /\ Covers(call[c].trade, call[c].tx)
        /\ Holders(call[c].tx) = {} \/ call[c].trade \in Holders(call[c].tx)
        /\ call' = [call EXCEPT ![c].at = "verified"]
     \/ /\ \/ ~Covers(call[c].trade, call[c].tx)
           \/ Holders(call[c].tx) \ {call[c].trade} # {}
        /\ call' = [call EXCEPT ![c] = NoCall]
  /\ UNCHANGED <<chain, inventory, listing, trade, outside, quote, job, faults>>

\* The UPDATE and the ledger entry, seen by others at the commit only.
Write(c) ==
  /\ call[c].at = "verified"
  /\ ~Locked(call[c].trade)
  /\ call' = [call EXCEPT ![c].at = "written"]
  /\ UNCHANGED <<chain, inventory, listing, trade, outside, quote, job, faults>>

\* The transfer job is added before the commit and seen by workers at once.
AddTransfer(c) ==
  /\ call[c].at = "written"
  /\ call' = [call EXCEPT ![c].at = "queued"]
  /\ job' = Add(job, "transfer", call[c].trade)
  /\ UNCHANGED <<chain, inventory, listing, trade, outside, quote, faults>>

Commit(c) ==
  /\ call[c].at = "queued"
  /\ trade' = [trade EXCEPT ![call[c].trade].status = "PAID",
                            ![call[c].trade].escrowTxHash = call[c].tx,
                            ![call[c].trade].escrowIn = @ + 1]
  /\ call' = [call EXCEPT ![c] = NoCall]
  /\ UNCHANGED <<chain, inventory, listing, outside, quote, job, faults>>

\* It throws, dies or times out: the transaction is rolled back, the job stays.
CallFails(c) ==
  /\ call[c].at # "idle"
  /\ call' = [call EXCEPT ![c] = NoCall]
  /\ Fault
  /\ UNCHANGED <<chain, inventory, listing, trade, outside, quote, job>>

--------------------------------------------------------------------------------
(***************************************************************************)
(* The p2p-settlement worker: transferItemAndPayout.                       *)
(***************************************************************************)

\* Mutant: the status of the trade is not looked at.
TransferStartUnpaid(t) ==
  /\ job.transfer[t] = "waiting"
  /\ job' = Move(job, "transfer", t, "post")
  /\ UNCHANGED <<chain, inventory, listing, trade, outside, quote, call, faults>>

\* A trade that is not PAID makes the job fail, for good.
TransferStart(t) ==
  /\ job.transfer[t] = "waiting"
  /\ job' = Move(job, "transfer", t, IF trade[t].status = "PAID" THEN "post" ELSE "done")
  /\ UNCHANGED <<chain, inventory, listing, trade, outside, quote, call, faults>>

\* Mutant: the game lets a player give away what he does not have.
GameMovesUnchecked(t) ==
  LET seller == listing[trade[t].listing].seller
  IN /\ inventory' = [inventory EXCEPT ![seller] = @ - 1, ![trade[t].buyer] = @ + 1]
     /\ outside' = [outside EXCEPT ![t].item = @ + 1]

\* The game moves the item, if the seller still has it.
GameMoves(t) ==
  LET seller == listing[trade[t].listing].seller
  IN /\ inventory[seller] > 0
     /\ inventory' = [inventory EXCEPT ![seller] = @ - 1, ![trade[t].buyer] = @ + 1]
     /\ outside' = [outside EXCEPT ![t].item = @ + 1]

\* Mutant: any answer of the game counts as a transfer.
TransferIgnoresStatus(t) ==
  /\ job.transfer[t] = "post"
  /\ job' = Move(job, "transfer", t, "pay")
  /\ UNCHANGED <<chain, inventory, listing, trade, outside, quote, call, faults>>

TransferDone(t) ==
  /\ job.transfer[t] = "post"
  /\ GameMoves(t)
  /\ job' = Move(job, "transfer", t, "pay")
  /\ UNCHANGED <<chain, listing, trade, quote, call, faults>>

\* Mutant: a 2xx other than 200 is taken for a refusal.
TransferRefusedThoughDone(t) ==
  /\ job.transfer[t] = "post"
  /\ GameMoves(t)
  /\ job' = Move(job, "transfer", t, "addRefund")
  /\ UNCHANGED <<chain, listing, trade, quote, call, faults>>

\* The game answers with an error and has not moved the item.
TransferRefused(t) ==
  /\ job.transfer[t] = "post"
  /\ job' = Move(job, "transfer", t, "addRefund")
  /\ UNCHANGED <<chain, inventory, listing, trade, outside, quote, call, faults>>

\* The game moves the item, its answer is lost or too late.
TransferAnswerLost(t) ==
  /\ job.transfer[t] = "post"
  /\ GameMoves(t)
  /\ job' = Move(job, "transfer", t, "addRefund")
  /\ Fault
  /\ UNCHANGED <<chain, listing, trade, quote, call>>

\* Mutant: the failed trade is left alone.
AddNoRefund(t) ==
  /\ job.transfer[t] = "addRefund"
  /\ job' = Move(job, "transfer", t, "done")
  /\ UNCHANGED <<chain, inventory, listing, trade, outside, quote, call, faults>>

AddRefund(t) ==
  /\ job.transfer[t] = "addRefund"
  /\ job' = Move(Add(job, "refund", t), "transfer", t, "done")
  /\ UNCHANGED <<chain, inventory, listing, trade, outside, quote, call, faults>>

PaySeller(t) ==
  /\ job.transfer[t] = "pay"
  /\ outside' = [outside EXCEPT ![t].payout = @ + 1]
  /\ job' = Move(job, "transfer", t, "record")
  /\ UNCHANGED <<chain, inventory, listing, trade, quote, call, faults>>

Record(t) ==
  /\ job.transfer[t] = "record"
  /\ ~Locked(t)
  /\ trade' = [trade EXCEPT ![t].status = "COMPLETED", ![t].payoutOut = @ + 1]
  /\ listing' = [listing EXCEPT ![trade[t].listing].status = "SOLD"]
  /\ job' = Move(job, "transfer", t, "notify")
  /\ UNCHANGED <<chain, inventory, outside, quote, call, faults>>

Notify(t) ==
  /\ job.transfer[t] = "notify"
  /\ job' = Move(Add(job, "webhook", t), "transfer", t, "done")
  /\ UNCHANGED <<chain, inventory, listing, trade, outside, quote, call, faults>>

--------------------------------------------------------------------------------
(* refundProcessor with a tradeId: it does not look at the status.         *)
RefundSend(t) ==
  /\ job.refund[t] = "waiting"
  /\ outside' = [outside EXCEPT ![t].refund = @ + 1]
  /\ job' = Move(job, "refund", t, "record")
  /\ UNCHANGED <<chain, inventory, listing, trade, quote, call, faults>>

\* Mutant: the refund is recorded without its ledger entry.
RefundRecordNoLedger(t) ==
  /\ job.refund[t] = "record"
  /\ ~Locked(t)
  /\ trade' = [trade EXCEPT ![t].status = "REFUNDED"]
  /\ job' = Move(job, "refund", t, "done")
  /\ UNCHANGED <<chain, inventory, listing, outside, quote, call, faults>>

\* The listing stays as it is.
RefundRecord(t) ==
  /\ job.refund[t] = "record"
  /\ ~Locked(t)
  /\ trade' = [trade EXCEPT ![t].status = "REFUNDED", ![t].refundOut = @ + 1]
  /\ job' = Move(job, "refund", t, "done")
  /\ UNCHANGED <<chain, inventory, listing, outside, quote, call, faults>>

\* The processor throws, or its worker dies and the job starts again.
JobFails(q, t) ==
  /\ job[q][t] \notin {"none", "done"}
  /\ job' \in Broken(job, q, t)
  /\ Fault
  /\ UNCHANGED <<chain, inventory, listing, trade, outside, quote, call>>

\* Ten later jobs have ended: the queue forgets this one.
Evict(q, t) ==
  /\ job[q][t] = "done"
  /\ job' = Move(job, q, t, "none")
  /\ Fault
  /\ UNCHANGED <<chain, inventory, listing, trade, outside, quote, call>>

--------------------------------------------------------------------------------
CallStep(c) == Verify(c) \/ Write(c) \/ AddTransfer(c) \/ Commit(c)

TransferStep(t) ==
  \/ TransferStart(t) \/ TransferDone(t) \/ TransferRefused(t) \/ AddRefund(t)
  \/ PaySeller(t) \/ Record(t) \/ Notify(t)

RefundStep(t) == RefundSend(t) \/ RefundRecord(t)

Next ==
  \/ \E memo \in Memos, amount \in Amounts : Pay(memo, amount)
  \/ \E p \in Players :
       \/ Spend(p)
       \/ \E l \in Listings : CreateListing(p, l) \/ QuoteRead(p, l)
       \/ \E t \in Trades : QuoteWrite(p, t)
  \/ \E c \in Calls :
       \/ \E t \in Trades, tx \in 1..MaxPayments : Begin(c, t, tx)
       \/ CallStep(c)
       \/ CallFails(c)
  \/ \E t \in Trades :
       \/ TransferStep(t)
       \/ TransferAnswerLost(t)
       \/ RefundStep(t)
       \/ \E q \in {"transfer", "refund"} : JobFails(q, t) \/ Evict(q, t)

Spec == Init /\ [][Next]_vars

(* A started verification goes on, and workers take and run the jobs.      *)
Fairness ==
  /\ \A c \in Calls : WF_vars(CallStep(c))
  /\ \A t \in Trades : WF_vars(TransferStep(t)) /\ WF_vars(RefundStep(t))

FairSpec == Spec /\ Fairness

================================================================================
