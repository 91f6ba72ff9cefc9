----------------------------- MODULE MarketProofs ------------------------------
(***************************************************************************)
(* Market keeps its types and its promises, for every value of its         *)
(* constants.                                                              *)
(***************************************************************************)
EXTENDS MarketCorrectness, SequenceTheorems, TLAPS

Stages == {"none", "waiting", "post", "pay", "record", "notify", "addRefund", "done"}

(* A move of a job changes the stage of that job only.                     *)
LEMMA MoveTransfer ==
  ASSUME job \in Jobs, NEW t \in Trades, NEW s \in Stages
  PROVE  /\ Move(job, "transfer", t, s) \in Jobs
         /\ Move(job, "transfer", t, s).transfer = [job.transfer EXCEPT ![t] = s]
         /\ Move(job, "transfer", t, s).refund = job.refund
         /\ Move(job, "transfer", t, s).webhook = job.webhook
  BY DEF Move, Jobs, Stages

(* The same for a refund job.                                              *)
LEMMA MoveRefund ==
  ASSUME job \in Jobs, NEW t \in Trades, NEW s \in {"none", "waiting", "record", "done"}
  PROVE  /\ Move(job, "refund", t, s) \in Jobs
         /\ Move(job, "refund", t, s).refund = [job.refund EXCEPT ![t] = s]
         /\ Move(job, "refund", t, s).transfer = job.transfer
         /\ Move(job, "refund", t, s).webhook = job.webhook
  BY DEF Move, Jobs

(* The same for the job of the completion webhook.                         *)
LEMMA MoveWebhook ==
  ASSUME job \in Jobs, NEW t \in Trades, NEW s \in {"none", "waiting"}
  PROVE  /\ Move(job, "webhook", t, s) \in Jobs
         /\ Move(job, "webhook", t, s).webhook = [job.webhook EXCEPT ![t] = s]
         /\ Move(job, "webhook", t, s).transfer = job.transfer
         /\ Move(job, "webhook", t, s).refund = job.refund
  BY DEF Move, Jobs

(* The stage of a transfer job that goes on.                               *)
TransferGoes(t, from, to) ==
  /\ job.transfer[t] = from
  /\ job' \in Jobs
  /\ job'.transfer = [job.transfer EXCEPT ![t] = to]

(* The stages that the steps below name.                                   *)
LEMMA NamedStages ==
  /\ {"none", "waiting", "done"} \subseteq Stages
  /\ {"post", "pay", "record", "notify", "addRefund"} \subseteq Stages
  BY DEF Stages

(* A move of the transfer worker, in terms of its stages.                  *)
LEMMA MoveGoes ==
  ASSUME job \in Jobs, NEW t \in Trades, NEW from, NEW to \in Stages,
         job.transfer[t] = from, job' = Move(job, "transfer", t, to)
  PROVE  TransferGoes(t, from, to) /\ job'.refund = job.refund
  BY MoveTransfer DEF TransferGoes

(* What each step of the transfer worker does to the queues.               *)
LEMMA TransferJobs ==
  ASSUME job \in Jobs, NEW t \in Trades
  PROVE  /\ TransferStart(t) =>
              /\ \/ trade[t].status = "PAID" /\ TransferGoes(t, "waiting", "post")
                 \/ TransferGoes(t, "waiting", "done")
              /\ job'.refund = job.refund
         /\ TransferDone(t) => TransferGoes(t, "post", "pay") /\ job'.refund = job.refund
         /\ TransferRefused(t) \/ TransferAnswerLost(t) =>
              TransferGoes(t, "post", "addRefund") /\ job'.refund = job.refund
         /\ PaySeller(t) => TransferGoes(t, "pay", "record") /\ job'.refund = job.refund
         /\ Record(t) => TransferGoes(t, "record", "notify") /\ job'.refund = job.refund
  <1>1. ASSUME TransferStart(t)
        PROVE  /\ \/ trade[t].status = "PAID" /\ TransferGoes(t, "waiting", "post")
                  \/ TransferGoes(t, "waiting", "done")
               /\ job'.refund = job.refund
    <2>1. CASE trade[t].status = "PAID"
      <3>1. job.transfer[t] = "waiting" /\ job' = Move(job, "transfer", t, "post")
        BY <1>1, <2>1 DEF TransferStart
      <3> QED
        BY <2>1, <3>1, MoveGoes, NamedStages
    <2>2. CASE trade[t].status # "PAID"
      <3>1. job.transfer[t] = "waiting" /\ job' = Move(job, "transfer", t, "done")
        BY <1>1, <2>2 DEF TransferStart
      <3> QED
        BY <3>1, MoveGoes, NamedStages
    <2> QED
      BY <2>1, <2>2
  <1>2. ASSUME TransferDone(t)
        PROVE  TransferGoes(t, "post", "pay") /\ job'.refund = job.refund
    <2>1. job.transfer[t] = "post" /\ job' = Move(job, "transfer", t, "pay")
      BY <1>2 DEF TransferDone
    <2> QED
      BY <2>1, MoveGoes, NamedStages
  <1>3. ASSUME TransferRefused(t) \/ TransferAnswerLost(t)
        PROVE  TransferGoes(t, "post", "addRefund") /\ job'.refund = job.refund
    <2>1. job.transfer[t] = "post" /\ job' = Move(job, "transfer", t, "addRefund")
      BY <1>3 DEF TransferRefused, TransferAnswerLost
    <2> QED
      BY <2>1, MoveGoes, NamedStages
  <1>4. ASSUME PaySeller(t)
        PROVE  TransferGoes(t, "pay", "record") /\ job'.refund = job.refund
    <2>1. job.transfer[t] = "pay" /\ job' = Move(job, "transfer", t, "record")
      BY <1>4 DEF PaySeller
    <2> QED
      BY <2>1, MoveGoes, NamedStages
  <1>5. ASSUME Record(t)
        PROVE  TransferGoes(t, "record", "notify") /\ job'.refund = job.refund
    <2>1. job.transfer[t] = "record" /\ job' = Move(job, "transfer", t, "notify")
      BY <1>5 DEF Record
    <2> QED
      BY <2>1, MoveGoes, NamedStages
  <1> QED
    BY <1>1, <1>2, <1>3, <1>4, <1>5

(* A job is added to the refund queue unless the queue knows it.           *)
LEMMA AddRefundJobs ==
  ASSUME job \in Jobs, NEW t \in Trades, AddRefund(t)
  PROVE  /\ TransferGoes(t, "addRefund", "done")
         /\ job'.refund = [job.refund EXCEPT ![t] = IF @ = "none" THEN "waiting" ELSE @]
  <1> DEFINE s == IF job.refund[t] = "none" THEN "waiting" ELSE job.refund[t]
             mid == Move(job, "refund", t, s)
  <1>1. Add(job, "refund", t) = mid
    BY DEF Add
  <1>2. s \in {"none", "waiting", "record", "done"}
    BY DEF Jobs
  <1>3. /\ mid \in Jobs
        /\ mid.refund = [job.refund EXCEPT ![t] = s]
        /\ mid.transfer = job.transfer
    BY <1>2, MoveRefund
  <1>4. /\ Move(mid, "transfer", t, "done") \in Jobs
        /\ Move(mid, "transfer", t, "done").transfer = [mid.transfer EXCEPT ![t] = "done"]
        /\ Move(mid, "transfer", t, "done").refund = mid.refund
    BY <1>3 DEF Move, Jobs
  <1>5. job.transfer[t] = "addRefund" /\ job' = Move(mid, "transfer", t, "done")
    BY <1>1 DEF AddRefund
  <1> QED
    BY <1>3, <1>4, <1>5 DEF TransferGoes

(* The job of the webhook is added, the transfer job ends.                 *)
LEMMA NotifyJobs ==
  ASSUME job \in Jobs, NEW t \in Trades, Notify(t)
  PROVE  TransferGoes(t, "notify", "done") /\ job'.refund = job.refund
  <1> DEFINE s == IF job.webhook[t] = "none" THEN "waiting" ELSE job.webhook[t]
             mid == Move(job, "webhook", t, s)
  <1>1. Add(job, "webhook", t) = mid
    BY DEF Add
  <1>2. s \in {"none", "waiting"}
    BY DEF Jobs
  <1>3. mid \in Jobs /\ mid.refund = job.refund /\ mid.transfer = job.transfer
    BY <1>2, MoveWebhook
  <1>4. /\ Move(mid, "transfer", t, "done") \in Jobs
        /\ Move(mid, "transfer", t, "done").transfer = [mid.transfer EXCEPT ![t] = "done"]
        /\ Move(mid, "transfer", t, "done").refund = mid.refund
    BY <1>3 DEF Move, Jobs
  <1>5. job.transfer[t] = "notify" /\ job' = Move(mid, "transfer", t, "done")
    BY <1>1 DEF Notify
  <1> QED
    BY <1>3, <1>4, <1>5 DEF TransferGoes

(* What the refund worker does to the queues.                              *)
LEMMA RefundJobs ==
  ASSUME job \in Jobs, NEW t \in Trades
  PROVE  /\ RefundSend(t) =>
              /\ job.refund[t] = "waiting" /\ job' \in Jobs
              /\ job'.refund = [job.refund EXCEPT ![t] = "record"]
              /\ job'.transfer = job.transfer
         /\ RefundRecord(t) =>
              /\ job.refund[t] = "record" /\ job' \in Jobs
              /\ job'.refund = [job.refund EXCEPT ![t] = "done"]
              /\ job'.transfer = job.transfer
  BY MoveRefund DEF RefundSend, RefundRecord

(* A verification adds a transfer job that was unknown, or nothing.        *)
LEMMA AddTransferJobs ==
  ASSUME job \in Jobs, NEW c \in Calls, call[c].trade \in Trades, AddTransfer(c)
  PROVE  /\ job' \in Jobs
         /\ job'.transfer = [job.transfer EXCEPT ![call[c].trade] =
                               IF @ = "none" THEN "waiting" ELSE @]
         /\ job'.refund = job.refund
  <1> DEFINE t == call[c].trade
             s == IF job.transfer[t] = "none" THEN "waiting" ELSE job.transfer[t]
  <1>1. job' = Move(job, "transfer", t, s)
    BY DEF AddTransfer, Add
  <1>2. s \in Stages
    BY DEF Jobs, Stages
  <1>3. /\ job' \in Jobs
        /\ job'.transfer = [job.transfer EXCEPT ![t] = s]
        /\ job'.refund = job.refund
    BY <1>1, <1>2, MoveTransfer
  <1> QED
    BY <1>3

(* A failing or evicted job goes back to an earlier stage, or ends.        *)
LEMMA BrokenJobs ==
  ASSUME job \in Jobs, NEW t \in Trades, NEW q \in {"transfer", "refund"},
         JobFails(q, t) \/ Evict(q, t)
  PROVE  /\ job' \in Jobs
         /\ \A r \in {"transfer", "refund"} : \A u \in Trades :
              \/ job'[r][u] = job[r][u]
              \/ job[r][u] # "none" /\ job'[r][u] \in {"none", "waiting", "done"}
         /\ job'.transfer = job.transfer \/ job'.refund = job.refund
  <1>1. PICK s \in {"none", "waiting", "done"} : job' = Move(job, q, t, s)
    BY DEF JobFails, Evict, Broken
  <1>2. job[q][t] # "none"
    BY DEF JobFails, Evict
  <1>3. CASE q = "transfer"
    <2>1. s \in Stages
      BY NamedStages
    <2>2. job' = Move(job, "transfer", t, s)
      BY <1>1, <1>3
    <2>3. /\ job' \in Jobs
          /\ job'.transfer = [job.transfer EXCEPT ![t] = s]
          /\ job'.refund = job.refund
      BY <2>1, <2>2, MoveTransfer
    <2> QED
      BY <1>2, <1>3, <2>3 DEF Jobs
  <1>4. CASE q = "refund"
    <2>1. /\ job' \in Jobs
          /\ job'.refund = [job.refund EXCEPT ![t] = s]
          /\ job'.transfer = job.transfer
      BY <1>1, <1>4, MoveRefund
    <2> QED
      BY <1>2, <1>4, <2>1 DEF Jobs
  <1> QED
    BY <1>3, <1>4

--------------------------------------------------------------------------------
(* The steps, grouped by what they write.                                  *)
PlayerStep ==
  \/ \E memo \in Memos, amount \in Amounts : Pay(memo, amount)
  \/ \E p \in Players : Spend(p)
  \/ \E p \in Players, l \in Listings : CreateListing(p, l) \/ QuoteRead(p, l)
  \/ \E p \in Players, t \in Trades : QuoteWrite(p, t)

VerifyStep ==
  \E c \in Calls :
    \/ \E t \in Trades, tx \in 1..MaxPayments : Begin(c, t, tx)
    \/ CallStep(c)
    \/ CallFails(c)

JobStep ==
  \E t \in Trades :
    \/ TransferStep(t) \/ TransferAnswerLost(t) \/ RefundStep(t)
    \/ \E q \in {"transfer", "refund"} : JobFails(q, t) \/ Evict(q, t)

(* Every step is one of these.                                             *)
LEMMA StepGroups == Next => PlayerStep \/ VerifyStep \/ JobStep
  BY DEF Next, PlayerStep, VerifyStep, JobStep

(* A stored trade stays, for the same listing and buyer; an escrowed one   *)
(* stays escrowed, and only the end of a verification makes one so.        *)
TradesKept ==
  /\ trade' \in [Trades -> TradeRow]
  /\ \A t \in Trades :
       /\ trade[t].status # "NONE" =>
            /\ trade'[t].status # "NONE"
            /\ trade'[t].listing = trade[t].listing
            /\ trade'[t].buyer = trade[t].buyer
       /\ Escrowed(t) => Escrowed(t)'

(* A quote writes a trade that was not there.                              *)
LEMMA TradesKeptByPlayers ==
  ASSUME MarketInv, PlayerStep
  PROVE  TradesKept
  <1>1. trade \in [Trades -> TradeRow] /\ quote \in [Players -> Listings \cup {NoListing}]
    BY DEF MarketInv, TypeOK
  <1>2. CASE UNCHANGED trade
    BY <1>1, <1>2 DEF TradesKept, Escrowed
  <1>3. ASSUME NEW p \in Players, NEW t \in Trades, QuoteWrite(p, t)
        PROVE  TradesKept
    <2> DEFINE row == [trade[t] EXCEPT !.status = "ESCROW_PENDING", !.listing = quote[p],
                                       !.buyer = p]
    <2>1. trade[t].status = "NONE" /\ trade' = [trade EXCEPT ![t] = row]
      BY <1>1, <1>3 DEF QuoteWrite
    <2>2. row \in TradeRow
      BY <1>1 DEF TradeRow
    <2> HIDE DEF row
    <2> QED
      BY <1>1, <2>1, <2>2 DEF TradesKept, Escrowed
  <1> QED
    BY <1>2, <1>3 DEF PlayerStep, Pay, Spend, CreateListing, QuoteRead

(* A verification leaves the listing and buyer of its trade alone.         *)
LEMMA TradesKeptByCalls ==
  ASSUME MarketInv, VerifyStep
  PROVE  TradesKept
  <1>1. trade \in [Trades -> TradeRow] /\ call \in [Calls -> Call] /\ CallsAreCovered
    BY DEF MarketInv, TypeOK
  <1>2. CASE UNCHANGED trade
    BY <1>1, <1>2 DEF TradesKept, Escrowed
  <1>3. ASSUME NEW c \in Calls, Commit(c)
        PROVE  TradesKept
    <2>1. call[c].trade \in Trades /\ call[c].tx \in Nat
      BY <1>1, <1>3 DEF CallsAreCovered, Commit, Call
    <2> QED
      BY <1>1, <1>3, <2>1 DEF TradesKept, Escrowed, Commit, TradeRow
  <1> QED
    BY <1>2, <1>3 DEF VerifyStep, CallStep, Begin, Verify, Write, AddTransfer, CallFails

(* The workers end the trades of their jobs, which are escrowed.           *)
LEMMA TradesKeptByJobs ==
  ASSUME MarketInv, JobStep
  PROVE  TradesKept
  <1>1. trade \in [Trades -> TradeRow]
    BY DEF MarketInv, TypeOK
  <1>2. CASE UNCHANGED trade
    BY <1>1, <1>2 DEF TradesKept, Escrowed
  <1>3. ASSUME NEW t \in Trades, Record(t) \/ RefundRecord(t)
        PROVE  TradesKept
    BY <1>1, <1>3 DEF TradesKept, Escrowed, Record, RefundRecord, TradeRow
  <1> QED
    BY <1>2, <1>3 DEF JobStep, TransferStep, RefundStep, TransferStart, TransferDone,
       TransferRefused, AddRefund, PaySeller, Notify, TransferAnswerLost, RefundSend,
       JobFails, Evict

(* Every step keeps the stored trades.                                     *)
LEMMA NextKeepsTrades ==
  ASSUME MarketInv, Next
  PROVE  TradesKept
  BY StepGroups, TradesKeptByPlayers, TradesKeptByCalls, TradesKeptByJobs

(* The payments that were there are there after any step.                  *)
LEMMA ChainKept ==
  ASSUME MarketInv, Next
  PROVE  \A i \in 1..Len(chain) : i \in 1..Len(chain') /\ chain'[i] = chain[i]
  <1>1. chain \in Seq(Payment(Memos, Amounts))
    BY DEF MarketInv, TypeOK
  <1>2. ASSUME NEW memo \in Memos, NEW amount \in Amounts, Pay(memo, amount)
        PROVE  \A i \in 1..Len(chain) : i \in 1..Len(chain') /\ chain'[i] = chain[i]
    <2>1. [memo |-> memo, amount |-> amount] \in Payment(Memos, Amounts)
      BY DEF Payment
    <2> QED
      BY <1>1, <1>2, <2>1, AppendProperties DEF Pay
  <1>3. CASE UNCHANGED chain
    BY <1>3
  <1> QED
    BY <1>2, <1>3 DEF Next, CallStep, TransferStep, RefundStep, Spend, CreateListing,
       QuoteRead, QuoteWrite, Begin, Verify, Write, AddTransfer, Commit, CallFails,
       TransferStart, TransferDone, TransferRefused, AddRefund, PaySeller, Record, Notify,
       TransferAnswerLost, RefundSend, RefundRecord, JobFails, Evict

(* What Horizon confirms of a stored trade stays true.                     *)
LEMMA CoversKept ==
  ASSUME MarketInv, Next
  PROVE  \A t \in Trades, tx \in Nat :
           trade[t].status # "NONE" /\ Covers(t, tx) => Covers(t, tx)'
  BY NextKeepsTrades, ChainKept DEF TradesKept, Covers, VerifyPayment

--------------------------------------------------------------------------------
(* Types and links                                                         *)

(* The queues stay queues.                                                 *)
LEMMA JobsType ==
  ASSUME MarketInv, Next
  PROVE  job' \in Jobs
  <1>1. job \in Jobs /\ CallsAreCovered
    BY DEF MarketInv, TypeOK
  <1>2. CASE PlayerStep
    BY <1>1, <1>2 DEF PlayerStep, Pay, Spend, CreateListing, QuoteRead, QuoteWrite
  <1>3. CASE VerifyStep
    <2>1. ASSUME NEW c \in Calls, AddTransfer(c)
          PROVE  job' \in Jobs
      BY <1>1, <2>1, AddTransferJobs DEF AddTransfer, CallsAreCovered
    <2> QED
      BY <1>1, <1>3, <2>1
         DEF VerifyStep, CallStep, Begin, Verify, Write, Commit, CallFails
  <1>4. ASSUME NEW t \in Trades, TransferStep(t) \/ TransferAnswerLost(t)
        PROVE  job' \in Jobs
    BY <1>1, <1>4, TransferJobs, AddRefundJobs, NotifyJobs DEF TransferStep, TransferGoes
  <1>5. ASSUME NEW t \in Trades, RefundStep(t)
        PROVE  job' \in Jobs
    BY <1>1, <1>5, RefundJobs DEF RefundStep
  <1>6. ASSUME NEW t \in Trades, NEW q \in {"transfer", "refund"},
               JobFails(q, t) \/ Evict(q, t)
        PROVE  job' \in Jobs
    BY <1>1, <1>6, BrokenJobs
  <1> QED
    BY <1>2, <1>3, <1>4, <1>5, <1>6, StepGroups DEF JobStep

(* A trade whose transfer has started is linked to its seller and buyer.   *)
LEMMA StartedIsLinked ==
  ASSUME MarketInv, NEW t \in Trades, job.transfer[t] \notin {"none", "waiting", "done"}
  PROVE  /\ trade[t].listing \in Listings
         /\ trade[t].buyer \in Players
         /\ listing[trade[t].listing].seller \in Players
  BY DEF MarketInv, JobsAreEscrowed, Escrowed, RowsAreLinked

(* A listing keeps its shape and its seller.                               *)
ListingsKept ==
  /\ listing' \in [Listings -> ListingRow]
  /\ \A l \in Listings : listing[l].seller \in Players => listing'[l].seller \in Players

(* Every step keeps the sellers of the listings.                           *)
LEMMA NextKeepsListings ==
  ASSUME MarketInv, Next
  PROVE  ListingsKept
  <1>1. /\ listing \in [Listings -> ListingRow]
        /\ quote \in [Players -> Listings \cup {NoListing}]
    BY DEF MarketInv, TypeOK
  <1>2. CASE UNCHANGED listing
    BY <1>1, <1>2 DEF ListingsKept
  <1>3. ASSUME NEW p \in Players, NEW l \in Listings, CreateListing(p, l)
        PROVE  ListingsKept
    BY <1>1, <1>3 DEF ListingsKept, CreateListing, ListingRow
  <1>4. ASSUME NEW p \in Players, NEW t \in Trades, QuoteWrite(p, t)
        PROVE  ListingsKept
    <2>1. quote[p] \in Listings /\ listing' = [listing EXCEPT ![quote[p]].status = "LOCKED"]
      BY <1>1, <1>4 DEF QuoteWrite
    <2> QED
      BY <1>1, <2>1 DEF ListingsKept, ListingRow
  <1>5. ASSUME NEW t \in Trades, Record(t)
        PROVE  ListingsKept
    <2>1. listing' = [listing EXCEPT ![trade[t].listing].status = "SOLD"]
      BY <1>5 DEF Record
    <2>2. trade[t].listing \in Listings
      BY <1>5, StartedIsLinked DEF Record
    <2> QED
      BY <1>1, <2>1, <2>2 DEF ListingsKept, ListingRow
  <1> QED
    BY <1>2, <1>3, <1>4, <1>5 DEF Next, CallStep, TransferStep, RefundStep, Pay, Spend,
       QuoteRead, Begin, Verify, Write, AddTransfer, Commit, CallFails, TransferStart,
       TransferDone, TransferRefused, AddRefund, PaySeller, Notify,
       TransferAnswerLost, RefundSend, RefundRecord, JobFails, Evict

(* Nothing is taken from an empty inventory.                               *)
LEMMA InventoryType ==
  ASSUME MarketInv, Next
  PROVE  inventory' \in [Players -> Nat]
  <1>1. inventory \in [Players -> Nat]
    BY DEF MarketInv, TypeOK
  <1>2. ASSUME NEW p \in Players, Spend(p)
        PROVE  inventory' \in [Players -> Nat]
    BY <1>1, <1>2 DEF Spend
  <1>3. ASSUME NEW t \in Trades, job.transfer[t] = "post", GameMoves(t)
        PROVE  inventory' \in [Players -> Nat]
    <2> DEFINE seller == listing[trade[t].listing].seller
               buyer == trade[t].buyer
    <2>1. seller \in Players /\ buyer \in Players
      BY <1>3, StartedIsLinked
    <2>2. /\ inventory[seller] > 0
          /\ inventory' = [inventory EXCEPT ![seller] = @ - 1, ![buyer] = @ + 1]
      BY <1>3 DEF GameMoves
    <2> HIDE DEF seller, buyer
    <2> QED
      BY <1>1, <2>1, <2>2
  <1>4. CASE UNCHANGED inventory
    BY <1>1, <1>4
  <1> QED
    BY <1>2, <1>3, <1>4 DEF Next, CallStep, TransferStep, RefundStep, Pay, CreateListing,
       QuoteRead, QuoteWrite, Begin, Verify, Write, AddTransfer, Commit, CallFails,
       TransferStart, TransferDone, TransferRefused, AddRefund, PaySeller, Record, Notify,
       TransferAnswerLost, RefundSend, RefundRecord, JobFails, Evict

(* The bounded counter of failures never falls.                            *)
LEMMA FaultsType ==
  ASSUME MarketInv, Next
  PROVE  /\ faults \in Nat
         /\ faults' \in 0..MaxFaults
         /\ faults' = faults \/ faults' = faults + 1
  <1>1. faults \in 0..MaxFaults /\ MaxFaults \in Nat
    BY ConstantsAssumption DEF MarketInv, TypeOK
  <1>2. CASE UNCHANGED faults
    BY <1>1, <1>2
  <1>3. CASE Fault
    BY <1>1, <1>3 DEF Fault
  <1> QED
    BY <1>2, <1>3 DEF Next, CallStep, TransferStep, RefundStep, Pay, Spend, CreateListing,
       QuoteRead, QuoteWrite, Begin, Verify, Write, AddTransfer, Commit, CallFails,
       TransferStart, TransferDone, TransferRefused, AddRefund, PaySeller, Record, Notify,
       TransferAnswerLost, RefundSend, RefundRecord, JobFails, Evict

(* Payments, quotes and verifications keep their shape.                    *)
LEMMA CallersType ==
  ASSUME MarketInv, Next
  PROVE  /\ chain' \in Seq(Payment(Memos, Amounts))
         /\ quote' \in [Players -> Listings \cup {NoListing}]
         /\ call' \in [Calls -> Call]
  <1>1. /\ chain \in Seq(Payment(Memos, Amounts))
        /\ quote \in [Players -> Listings \cup {NoListing}]
        /\ call \in [Calls -> Call]
    BY DEF MarketInv, TypeOK
  <1>2. chain' \in Seq(Payment(Memos, Amounts))
    <2>1. ASSUME NEW memo \in Memos, NEW amount \in Amounts, Pay(memo, amount)
          PROVE  chain' \in Seq(Payment(Memos, Amounts))
      <3>1. [memo |-> memo, amount |-> amount] \in Payment(Memos, Amounts)
        BY DEF Payment
      <3> QED
        BY <1>1, <2>1, <3>1, AppendProperties DEF Pay
    <2>2. CASE UNCHANGED chain
      BY <1>1, <2>2
    <2> QED
      BY <2>1, <2>2 DEF Next, CallStep, TransferStep, RefundStep, Spend, CreateListing,
         QuoteRead, QuoteWrite, Begin, Verify, Write, AddTransfer, Commit, CallFails,
         TransferStart, TransferDone, TransferRefused, AddRefund, PaySeller, Record, Notify,
         TransferAnswerLost, RefundSend, RefundRecord, JobFails, Evict
  <1>3. CASE PlayerStep
    BY <1>1, <1>2, <1>3 DEF PlayerStep, Pay, Spend, CreateListing, QuoteRead, QuoteWrite
  <1>4. CASE VerifyStep
    <2>1. UNCHANGED quote
      BY <1>4 DEF VerifyStep, CallStep, Begin, Verify, Write, AddTransfer, Commit, CallFails
    <2>2. NoCall \in Call
      BY DEF NoCall, Call, NoTx
    <2>3. ASSUME NEW c \in Calls, NEW row \in Call, call' = [call EXCEPT ![c] = row]
          PROVE  call' \in [Calls -> Call]
      BY <1>1, <2>3
    <2>4. ASSUME NEW c \in Calls, NEW t \in Trades, NEW tx \in 1..MaxPayments,
                 Begin(c, t, tx)
          PROVE  call' \in [Calls -> Call]
      <3>1. [at |-> "read", trade |-> t, tx |-> tx] \in Call
        BY ConstantsAssumption DEF Call
      <3> QED
        BY <2>3, <2>4, <3>1 DEF Begin
    <2>5. ASSUME NEW c \in Calls, CallStep(c) \/ CallFails(c)
          PROVE  call' \in [Calls -> Call]
      <3>1. \A s \in {"verified", "written", "queued"} : [call[c] EXCEPT !.at = s] \in Call
        BY <1>1 DEF Call
      <3>2. \/ call' = [call EXCEPT ![c] = NoCall]
            \/ \E s \in {"verified", "written", "queued"} : call' = [call EXCEPT ![c].at = s]
        BY <2>5 DEF CallStep, Verify, Write, AddTransfer, Commit, CallFails
      <3> QED
        BY <1>1, <2>2, <3>1, <3>2
    <2> QED
      BY <1>1, <1>2, <1>4, <2>1, <2>4, <2>5 DEF VerifyStep
  <1>5. CASE JobStep
    BY <1>1, <1>2, <1>5 DEF JobStep, TransferStep, RefundStep, TransferStart, TransferDone,
       TransferRefused, AddRefund, PaySeller, Record, Notify, TransferAnswerLost, RefundSend,
       RefundRecord, JobFails, Evict
  <1> QED
    BY <1>2, <1>3, <1>4, <1>5, StepGroups

(* What is sent out is counted, one at a time, by the worker that sends it *)
(* and for the trade whose job it runs.                                    *)
LEMMA OutsideSteps ==
  ASSUME MarketInv, Next
  PROVE  /\ outside' \in [Trades -> Outside]
         /\ \A t \in Trades : outside'[t] # outside[t] =>
              job.transfer[t] \notin {"none", "waiting", "done"} \/ job.refund[t] # "none"
  <1>1. outside \in [Trades -> Outside]
    BY DEF MarketInv, TypeOK
  <1>2. CASE UNCHANGED outside
    BY <1>1, <1>2
  <1>3. ASSUME NEW t \in Trades,
               job.transfer[t] \notin {"none", "waiting", "done"} \/ job.refund[t] # "none",
               \/ outside' = [outside EXCEPT ![t].item = @ + 1]
               \/ outside' = [outside EXCEPT ![t].payout = @ + 1]
               \/ outside' = [outside EXCEPT ![t].refund = @ + 1]
        PROVE  /\ outside' \in [Trades -> Outside]
               /\ \A u \in Trades : outside'[u] # outside[u] => u = t
    BY <1>1, <1>3 DEF Outside
  <1>4. ASSUME NEW t \in Trades, TransferDone(t) \/ TransferAnswerLost(t)
        PROVE  job.transfer[t] = "post" /\ outside' = [outside EXCEPT ![t].item = @ + 1]
    BY <1>4 DEF TransferDone, TransferAnswerLost, GameMoves
  <1>5. ASSUME NEW t \in Trades, PaySeller(t)
        PROVE  job.transfer[t] = "pay" /\ outside' = [outside EXCEPT ![t].payout = @ + 1]
    BY <1>5 DEF PaySeller
  <1>6. ASSUME NEW t \in Trades, RefundSend(t)
        PROVE  job.refund[t] = "waiting" /\ outside' = [outside EXCEPT ![t].refund = @ + 1]
    BY <1>6 DEF RefundSend
  <1>7. ASSUME NEW t \in Trades,
               TransferDone(t) \/ TransferAnswerLost(t) \/ PaySeller(t) \/ RefundSend(t)
        PROVE  /\ outside' \in [Trades -> Outside]
               /\ \A u \in Trades : outside'[u] # outside[u] =>
                    job.transfer[u] \notin {"none", "waiting", "done"} \/ job.refund[u] # "none"
    <2>1. job.transfer[t] \notin {"none", "waiting", "done"} \/ job.refund[t] # "none"
      BY <1>4, <1>5, <1>6, <1>7
    <2>2. \/ outside' = [outside EXCEPT ![t].item = @ + 1]
          \/ outside' = [outside EXCEPT ![t].payout = @ + 1]
          \/ outside' = [outside EXCEPT ![t].refund = @ + 1]
      BY <1>4, <1>5, <1>6, <1>7
    <2> QED
      BY <1>3, <2>1, <2>2
  <1> QED
    BY <1>2, <1>7 DEF Next, CallStep, TransferStep, RefundStep, Pay, Spend, CreateListing,
       QuoteRead, QuoteWrite, Begin, Verify, Write, AddTransfer, Commit, CallFails,
       TransferStart, TransferRefused, AddRefund, Record, Notify, RefundRecord, JobFails, Evict

(* All of it: the types are kept.                                          *)
LEMMA NextKeepsTypes ==
  ASSUME MarketInv, Next
  PROVE  TypeOK'
  BY NextKeepsTrades, NextKeepsListings, InventoryType, JobsType, FaultsType, CallersType,
     OutsideSteps DEF TypeOK, TradesKept, ListingsKept

--------------------------------------------------------------------------------
(* Verifications and jobs                                                  *)

(* A transaction that has what it needs.                                   *)
CoveredCall(row) ==
  row.at # "idle" =>
    /\ row.trade \in Trades
    /\ trade[row.trade].status # "NONE"
    /\ row.at # "read" => Covers(row.trade, row.tx)

(* It still has it after any step.                                         *)
LEMMA CoveredCallKept ==
  ASSUME MarketInv, Next, NEW row \in Call, CoveredCall(row)
  PROVE  CoveredCall(row)'
  <1> DEFINE t == row.trade
             tx == row.tx
  <1>1. CASE row.at = "idle"
    BY <1>1 DEF CoveredCall
  <1>2. CASE row.at # "idle"
    <2>1. t \in Trades /\ trade[t].status # "NONE" /\ tx \in Nat
      BY <1>2 DEF CoveredCall, Call
    <2>2. trade'[t].status # "NONE"
      BY <2>1, NextKeepsTrades DEF TradesKept
    <2>3. row.at # "read" => Covers(row.trade, row.tx)
      BY <1>2 DEF CoveredCall
    <2>4. Covers(row.trade, row.tx) => Covers(row.trade, row.tx)'
      BY <2>1, CoversKept
    <2> QED
      BY <2>1, <2>2, <2>3, <2>4 DEF CoveredCall
  <1> QED
    BY <1>1, <1>2

(* What a verification has confirmed of its trade stays true.              *)
LEMMA CallsStayCovered ==
  ASSUME MarketInv, Next
  PROVE  CallsAreCovered'
  <1>1. /\ call \in [Calls -> Call] /\ call' \in [Calls -> Call]
        /\ trade \in [Trades -> TradeRow]
        /\ \A c \in Calls : CoveredCall(call[c])
    BY CallersType DEF MarketInv, TypeOK, CallsAreCovered, CoveredCall
  <1>2. SUFFICES ASSUME NEW c \in Calls, NEW row \in Call, call'[c] = row
                 PROVE  CoveredCall(row)'
    BY <1>1 DEF CallsAreCovered, CoveredCall
  <1>3. CASE row = call[c]
    BY <1>1, <1>3, CoveredCallKept
  <1>4. CASE row = NoCall
    BY <1>4 DEF CoveredCall, NoCall
  <1>5. CASE \E t \in Trades, tx \in 1..MaxPayments : Begin(c, t, tx)
    <2>1. PICK t \in Trades, tx \in 1..MaxPayments : Begin(c, t, tx)
      BY <1>5
    <2>2. row = [at |-> "read", trade |-> t, tx |-> tx] /\ trade[t].status # "NONE"
      BY <1>1, <1>2, <2>1 DEF Begin
    <2>3. CoveredCall(row)
      BY <2>2 DEF CoveredCall
    <2> QED
      BY <2>3, CoveredCallKept
  <1>6. CASE /\ call[c].at # "idle" /\ Covers(call[c].trade, call[c].tx)
             /\ \E s \in {"verified", "written", "queued"} : row = [call[c] EXCEPT !.at = s]
    <2>1. CoveredCall(row)
      BY <1>1, <1>6 DEF CoveredCall, Call
    <2> QED
      BY <2>1, CoveredCallKept
  <1>7. ASSUME NEW d \in Calls, Verify(d) \/ Write(d) \/ AddTransfer(d)
        PROVE  \/ call' = [call EXCEPT ![d] = NoCall]
               \/ /\ call[d].at # "idle" /\ Covers(call[d].trade, call[d].tx)
                  /\ \E s \in {"verified", "written", "queued"} :
                       call' = [call EXCEPT ![d].at = s]
    BY <1>1, <1>7 DEF Verify, Write, AddTransfer, CoveredCall
  <1>8. ASSUME NEW d \in Calls, CallStep(d) \/ CallFails(d)
        PROVE  CoveredCall(row)'
    <2>1. \/ call' = [call EXCEPT ![d] = NoCall]
          \/ /\ call[d].at # "idle" /\ Covers(call[d].trade, call[d].tx)
             /\ \E s \in {"verified", "written", "queued"} :
                  call' = [call EXCEPT ![d].at = s]
      BY <1>7, <1>8 DEF CallStep, Commit, CallFails
    <2> QED
      BY <1>1, <1>2, <1>3, <1>4, <1>6, <2>1
  <1>9. ASSUME NEW d \in Calls, NEW t \in Trades, NEW tx \in 1..MaxPayments, Begin(d, t, tx)
        PROVE  CoveredCall(row)'
    <2>1. d # c => row = call[c]
      BY <1>1, <1>2, <1>9 DEF Begin
    <2> QED
      BY <1>3, <1>5, <1>9, <2>1
  <1>10. CASE UNCHANGED call
    BY <1>2, <1>3, <1>10
  <1> QED
    BY <1>8, <1>9, <1>10 DEF Next, TransferStep, RefundStep, Pay, Spend, CreateListing,
       QuoteRead, QuoteWrite, TransferStart, TransferDone, TransferRefused, AddRefund,
       PaySeller, Record, Notify, TransferAnswerLost, RefundSend, RefundRecord, JobFails, Evict

(* New trades and listings name rows that exist.                           *)
LEMMA RowsStayLinked ==
  ASSUME MarketInv, Next
  PROVE  RowsAreLinked'
  <1>1. /\ TradesKept /\ ListingsKept /\ RowsAreLinked
        /\ trade \in [Trades -> TradeRow]
        /\ listing \in [Listings -> ListingRow]
        /\ quote \in [Players -> Listings \cup {NoListing}]
    BY NextKeepsTrades, NextKeepsListings DEF MarketInv, TypeOK
  <1>2. \A t \in Trades : trade[t].status # "NONE" =>
          /\ trade'[t].listing \in Listings
          /\ trade'[t].buyer \in Players
          /\ listing'[trade'[t].listing].seller \in Players
    BY <1>1 DEF TradesKept, ListingsKept, RowsAreLinked
  <1>3. \A t \in Trades : trade'[t].status # "NONE" =>
          \/ trade[t].status # "NONE"
          \/ \E p \in Players : QuoteWrite(p, t)
    <2>1. CASE UNCHANGED trade
      BY <2>1
    <2>2. ASSUME NEW p \in Players, NEW t \in Trades, QuoteWrite(p, t)
          PROVE  \A u \in Trades : u # t => trade'[u] = trade[u]
      BY <1>1, <2>2 DEF QuoteWrite
    <2>3. ASSUME NEW c \in Calls, Commit(c)
          PROVE  \A u \in Trades : trade'[u].status # "NONE" => trade[u].status # "NONE"
      <3>1. call[c].trade \in Trades /\ trade[call[c].trade].status # "NONE"
        BY <2>3 DEF MarketInv, CallsAreCovered, Commit
      <3> QED
        BY <1>1, <2>3, <3>1 DEF Commit
    <2>4. ASSUME NEW t \in Trades, Record(t) \/ RefundRecord(t)
          PROVE  \A u \in Trades : trade'[u].status # "NONE" => trade[u].status # "NONE"
      <3>1. trade[t].status # "NONE"
        BY <2>4 DEF MarketInv, JobsAreEscrowed, Escrowed, Record, RefundRecord
      <3> QED
        BY <1>1, <2>4, <3>1 DEF Record, RefundRecord
    <2> QED
      BY <2>1, <2>2, <2>3, <2>4 DEF Next, CallStep, TransferStep, RefundStep, Pay, Spend,
         CreateListing, QuoteRead, Begin, Verify, Write, AddTransfer, CallFails,
         TransferStart, TransferDone, TransferRefused, AddRefund, PaySeller, Notify,
         TransferAnswerLost, RefundSend, JobFails, Evict
  <1>4. ASSUME NEW p \in Players, NEW t \in Trades, QuoteWrite(p, t)
        PROVE  /\ trade'[t].listing \in Listings
               /\ trade'[t].buyer \in Players
               /\ listing'[trade'[t].listing].seller \in Players
    <2>1. trade'[t].listing = quote[p] /\ trade'[t].buyer = p
      BY <1>1, <1>4 DEF QuoteWrite, TradeRow
    <2>2. quote[p] \in Listings /\ listing[quote[p]].seller \in Players
      BY <1>1, <1>4 DEF QuoteWrite, RowsAreLinked
    <2> QED
      BY <1>1, <2>1, <2>2 DEF ListingsKept
  <1>5. \A p \in Players : quote'[p] # NoListing => listing'[quote'[p]].seller \in Players
    <2>1. ASSUME NEW p \in Players, NEW l \in Listings, QuoteRead(p, l)
          PROVE  \A q \in Players : quote'[q] # NoListing => listing'[quote'[q]].seller \in Players
      BY <1>1, <2>1 DEF QuoteRead, RowsAreLinked
    <2>2. ASSUME NEW p \in Players, quote' = quote \/ quote' = [quote EXCEPT ![p] = NoListing]
          PROVE  \A q \in Players : quote'[q] # NoListing => listing'[quote'[q]].seller \in Players
      <3>1. \A q \in Players : quote'[q] # NoListing => quote'[q] = quote[q]
        BY <1>1, <2>2
      <3> QED
        BY <1>1, <3>1 DEF RowsAreLinked, ListingsKept
    <2> QED
      BY <2>1, <2>2 DEF Next, CallStep, TransferStep, RefundStep, Pay, Spend, CreateListing,
         QuoteWrite, Begin, Verify, Write, AddTransfer, Commit, CallFails, TransferStart,
         TransferDone, TransferRefused, AddRefund, PaySeller, Record, Notify,
         TransferAnswerLost, RefundSend, RefundRecord, JobFails, Evict
  <1>6. \A l \in Listings : listing'[l].status # "NONE" => listing'[l].seller \in Players
    <2>1. CASE UNCHANGED listing
      BY <1>1, <2>1 DEF RowsAreLinked
    <2>2. ASSUME NEW p \in Players, NEW l \in Listings, CreateListing(p, l)
          PROVE  \A k \in Listings : listing'[k].status # "NONE" => listing'[k].seller \in Players
      BY <1>1, <2>2 DEF CreateListing, RowsAreLinked
    <2>3. ASSUME NEW k \in Listings, NEW s, listing[k].seller \in Players,
                 listing' = [listing EXCEPT ![k].status = s]
          PROVE  \A l \in Listings : listing'[l].status # "NONE" => listing'[l].seller \in Players
      BY <1>1, <2>3 DEF RowsAreLinked
    <2>4. ASSUME NEW p \in Players, NEW t \in Trades, QuoteWrite(p, t)
          PROVE  /\ quote[p] \in Listings /\ listing[quote[p]].seller \in Players
                 /\ listing' = [listing EXCEPT ![quote[p]].status = "LOCKED"]
      BY <1>1, <2>4 DEF QuoteWrite, RowsAreLinked
    <2>5. ASSUME NEW t \in Trades, Record(t)
          PROVE  /\ trade[t].listing \in Listings /\ listing[trade[t].listing].seller \in Players
                 /\ listing' = [listing EXCEPT ![trade[t].listing].status = "SOLD"]
      BY <2>5, StartedIsLinked DEF Record
    <2> QED
      BY <2>1, <2>2, <2>3, <2>4, <2>5 DEF Next, CallStep, TransferStep, RefundStep, Pay,
         Spend, QuoteRead, Begin, Verify, Write, AddTransfer, Commit, CallFails,
         TransferStart, TransferDone, TransferRefused, AddRefund, PaySeller, Notify,
         TransferAnswerLost, RefundSend, RefundRecord, JobFails, Evict
  <1> QED
    BY <1>2, <1>3, <1>4, <1>5, <1>6 DEF RowsAreLinked

(* The stage of each job after a step of the transfer worker.              *)
LEMMA StageAfter ==
  ASSUME job \in Jobs, NEW t \in Trades, NEW from, NEW to, TransferGoes(t, from, to)
  PROVE  /\ job.transfer[t] = from
         /\ job'.transfer[t] = to
         /\ \A u \in Trades : u # t => job'.transfer[u] = job.transfer[u]
  BY DEF TransferGoes, Jobs

(* A job goes past its start for an escrowed trade only.                   *)
LEMMA JobsStayEscrowed ==
  ASSUME MarketInv, Next
  PROVE  JobsAreEscrowed'
  <1>1. /\ job \in Jobs /\ TradesKept /\ JobsAreEscrowed /\ CallsAreCovered
    BY NextKeepsTrades DEF MarketInv, TypeOK
  <1> DEFINE Past(u) == \/ job.transfer[u] \notin {"none", "waiting", "done"}
                        \/ job.refund[u] # "none"
             PastNext(u) == \/ job'.transfer[u] \notin {"none", "waiting", "done"}
                            \/ job'.refund[u] # "none"
  <1>2. ASSUME NEW u \in Trades, PastNext(u)
        PROVE  Past(u) \/ Escrowed(u)
    <2>1. CASE PlayerStep
      BY <1>2, <2>1 DEF PlayerStep, Pay, Spend, CreateListing, QuoteRead, QuoteWrite
    <2>2. ASSUME NEW c \in Calls, AddTransfer(c)
          PROVE  Past(u)
      <3>1. call[c].trade \in Trades
        BY <1>1, <2>2 DEF AddTransfer, CallsAreCovered
      <3>2. /\ job'.refund = job.refund
            /\ job'.transfer = [job.transfer EXCEPT ![call[c].trade] =
                                  IF @ = "none" THEN "waiting" ELSE @]
        BY <1>1, <2>2, <3>1, AddTransferJobs
      <3>3. job'.transfer[u] \in {job.transfer[u], "waiting"}
        BY <1>1, <3>2 DEF Jobs
      <3> QED
        BY <1>2, <3>2, <3>3
    <2>3. CASE VerifyStep
      BY <1>2, <2>2, <2>3
         DEF VerifyStep, CallStep, Begin, Verify, Write, Commit, CallFails
    <2>4. ASSUME NEW t \in Trades, NEW from, NEW to, TransferGoes(t, from, to),
                 job'.refund = job.refund, t # u \/ from \notin {"none", "waiting", "done"}
          PROVE  Past(u)
      <3>1. job.transfer[t] = from /\ (u # t => job'.transfer[u] = job.transfer[u])
        BY <1>1, <2>4, StageAfter
      <3> QED
        BY <1>2, <2>4, <3>1
    <2>5. ASSUME NEW t \in Trades, TransferStart(t)
          PROVE  Past(u) \/ Escrowed(u)
      <3>1. job'.refund = job.refund
        BY <1>1, <2>5, TransferJobs
      <3>2. CASE trade[t].status = "PAID" /\ TransferGoes(t, "waiting", "post")
        BY <2>4, <3>1, <3>2 DEF Escrowed
      <3>3. CASE TransferGoes(t, "waiting", "done")
        <4>1. job'.transfer[t] = "done"
          BY <1>1, <3>3, StageAfter
        <4> QED
          BY <1>2, <2>4, <3>1, <3>3, <4>1
      <3> QED
        BY <1>1, <2>5, <3>2, <3>3, TransferJobs
    <2>6. ASSUME NEW t \in Trades,
                 \/ TransferDone(t) \/ TransferRefused(t) \/ TransferAnswerLost(t)
                 \/ PaySeller(t) \/ Record(t) \/ Notify(t)
          PROVE  Past(u)
      <3>1. \E from \in {"post", "pay", "record", "notify"}, to \in Stages :
              TransferGoes(t, from, to) /\ job'.refund = job.refund
        BY <1>1, <2>6, TransferJobs, NotifyJobs, NamedStages
      <3> QED
        BY <2>4, <3>1
    <2>7. ASSUME NEW t \in Trades, AddRefund(t)
          PROVE  Past(u)
      <3>1. /\ TransferGoes(t, "addRefund", "done")
            /\ job'.refund = [job.refund EXCEPT ![t] = IF @ = "none" THEN "waiting" ELSE @]
        BY <1>1, <2>7, AddRefundJobs
      <3>2. job.transfer[t] = "addRefund" /\ (u # t => job'.transfer[u] = job.transfer[u])
        BY <1>1, <3>1, StageAfter
      <3>3. u # t => job'.refund[u] = job.refund[u]
        BY <1>1, <3>1 DEF Jobs
      <3> QED
        BY <1>2, <3>2, <3>3
    <2>8. ASSUME NEW t \in Trades, RefundStep(t)
          PROVE  Past(u)
      <3>1. job.refund[t] # "none" /\ job'.transfer = job.transfer
        BY <1>1, <2>8, RefundJobs DEF RefundStep
      <3>2. u # t => job'.refund[u] = job.refund[u]
        <4>1. \E s \in {"record", "done"} : job'.refund = [job.refund EXCEPT ![t] = s]
          BY <1>1, <2>8, RefundJobs DEF RefundStep
        <4> QED
          BY <1>1, <4>1 DEF Jobs
      <3> QED
        BY <1>2, <3>1, <3>2
    <2>9. ASSUME NEW t \in Trades, NEW q \in {"transfer", "refund"},
                 JobFails(q, t) \/ Evict(q, t)
          PROVE  Past(u)
      <3>1. \A r \in {"transfer", "refund"} :
              \/ job'[r][u] = job[r][u]
              \/ job[r][u] # "none" /\ job'[r][u] \in {"none", "waiting", "done"}
        BY <1>1, <2>9, BrokenJobs
      <3>2. /\ job'.transfer[u] = job.transfer[u] \/ job'.transfer[u] \in {"none", "waiting", "done"}
            /\ job'.refund[u] = job.refund[u] \/ job.refund[u] # "none"
        BY <3>1
      <3> QED
        BY <1>2, <3>2
    <2> QED
      BY <2>1, <2>3, <2>5, <2>6, <2>7, <2>8, <2>9, StepGroups DEF JobStep, TransferStep
  <1> QED
    BY <1>1, <1>2 DEF TradesKept, JobsAreEscrowed, Escrowed

--------------------------------------------------------------------------------
(* Escrow                                                                  *)

(* Only the commit of a verification sets the hash of a trade, or makes a  *)
(* trade an escrowed one.                                                  *)
LEMMA EscrowOfOthers ==
  ASSUME MarketInv, Next, NEW t \in Trades, Escrowed(t)'
  PROVE  \/ \E c \in Calls : Commit(c) /\ call[c].trade = t
         \/ /\ Escrowed(t)
            /\ trade'[t].escrowTxHash = trade[t].escrowTxHash
            /\ trade'[t].listing = trade[t].listing
            /\ trade'[t].escrowIn = trade[t].escrowIn
  <1>1. trade \in [Trades -> TradeRow] /\ JobsAreEscrowed
    BY DEF MarketInv, TypeOK
  <1>2. ASSUME trade'[t] = trade[t]
        PROVE  /\ Escrowed(t)
               /\ trade'[t].escrowTxHash = trade[t].escrowTxHash
               /\ trade'[t].listing = trade[t].listing
               /\ trade'[t].escrowIn = trade[t].escrowIn
    BY <1>2 DEF Escrowed
  <1>3. ASSUME NEW p \in Players, NEW u \in Trades, QuoteWrite(p, u)
        PROVE  trade'[t] = trade[t]
    <2> DEFINE row == [trade[u] EXCEPT !.status = "ESCROW_PENDING", !.listing = quote[p],
                                       !.buyer = p]
    <2>1. trade' = [trade EXCEPT ![u] = row]
      BY <1>1, <1>3 DEF QuoteWrite
    <2>2. row.status = "ESCROW_PENDING"
      BY <1>1 DEF TradeRow
    <2> HIDE DEF row
    <2> QED
      BY <1>1, <2>1, <2>2 DEF Escrowed
  <1>4. ASSUME NEW c \in Calls, Commit(c), call[c].trade # t
        PROVE  trade'[t] = trade[t]
    BY <1>1, <1>4 DEF Commit
  <1>5. ASSUME NEW u \in Trades, Record(u) \/ RefundRecord(u)
        PROVE  \/ trade'[t] = trade[t]
               \/ /\ Escrowed(t)
                  /\ trade'[t].escrowTxHash = trade[t].escrowTxHash
                  /\ trade'[t].listing = trade[t].listing
                  /\ trade'[t].escrowIn = trade[t].escrowIn
    <2>1. Escrowed(u)
      BY <1>1, <1>5 DEF JobsAreEscrowed, Record, RefundRecord
    <2> QED
      BY <1>1, <1>5, <2>1 DEF Record, RefundRecord, TradeRow
  <1>6. CASE UNCHANGED trade
    BY <1>2, <1>6
  <1> QED
    BY <1>2, <1>3, <1>4, <1>5, <1>6 DEF Next, CallStep, TransferStep, RefundStep, Pay, Spend,
       CreateListing, QuoteRead, Begin, Verify, Write, AddTransfer, CallFails,
       TransferStart, TransferDone, TransferRefused, AddRefund, PaySeller, Notify,
       TransferAnswerLost, RefundSend, JobFails, Evict

(* What Horizon has confirmed backs the trade once it is committed.        *)
LEMMA EscrowStaysBacked ==
  ASSUME MarketInv, Next
  PROVE  EscrowIsBacked'
  <1>1. /\ trade \in [Trades -> TradeRow] /\ call \in [Calls -> Call]
        /\ CallsAreCovered /\ EscrowIsBacked
    BY DEF MarketInv, TypeOK
  <1>2. SUFFICES ASSUME NEW t \in Trades, Escrowed(t)'
                 PROVE  /\ trade'[t].escrowTxHash \in 1..Len(chain')
                        /\ chain'[trade'[t].escrowTxHash].memo = Memo[t]
                        /\ chain'[trade'[t].escrowTxHash].amount >= Price[trade'[t].listing]
                        /\ trade'[t].escrowIn >= 1
    BY DEF EscrowIsBacked
  <1>3. ASSUME NEW c \in Calls, Commit(c), call[c].trade = t
        PROVE  /\ trade'[t].escrowTxHash \in 1..Len(chain)
               /\ chain[trade'[t].escrowTxHash].memo = Memo[t]
               /\ chain[trade'[t].escrowTxHash].amount >= Price[trade'[t].listing]
               /\ trade'[t].escrowIn >= 1
    <2>1. Covers(t, call[c].tx)
      BY <1>1, <1>3 DEF CallsAreCovered, Commit
    <2>2. /\ trade'[t].escrowTxHash = call[c].tx
          /\ trade'[t].listing = trade[t].listing
          /\ trade'[t].escrowIn = trade[t].escrowIn + 1
      BY <1>1, <1>3 DEF Commit, TradeRow
    <2>3. trade'[t].escrowIn >= 1
      BY <1>1, <2>2 DEF TradeRow
    <2> QED
      BY <2>1, <2>2, <2>3 DEF Covers, VerifyPayment
  <1>4. ASSUME Escrowed(t),
               trade'[t].escrowTxHash = trade[t].escrowTxHash,
               trade'[t].listing = trade[t].listing,
               trade'[t].escrowIn = trade[t].escrowIn
        PROVE  /\ trade'[t].escrowTxHash \in 1..Len(chain)
               /\ chain[trade'[t].escrowTxHash].memo = Memo[t]
               /\ chain[trade'[t].escrowTxHash].amount >= Price[trade'[t].listing]
               /\ trade'[t].escrowIn >= 1
    BY <1>1, <1>4 DEF EscrowIsBacked
  <1> QED
    BY <1>2, <1>3, <1>4, EscrowOfOthers, ChainKept

(* Money and items leave for escrowed trades.                              *)
LEMMA ReleasedStaysEscrowed ==
  ASSUME MarketInv, Next
  PROVE  ReleasedIsEscrowed'
  <1>1. ASSUME NEW t \in Trades, outside'[t] # [item |-> 0, payout |-> 0, refund |-> 0]
        PROVE  Escrowed(t)
    <2>1. CASE outside'[t] = outside[t]
      BY <1>1, <2>1 DEF MarketInv, ReleasedIsEscrowed
    <2>2. CASE outside'[t] # outside[t]
      BY <2>2, OutsideSteps DEF MarketInv, JobsAreEscrowed
    <2> QED
      BY <2>1, <2>2
  <1> QED
    BY <1>1, NextKeepsTrades DEF ReleasedIsEscrowed, TradesKept

--------------------------------------------------------------------------------
(* Books                                                                   *)

(* What has left for a trade, where its jobs are and what the ledger says, *)
(* as one formula about that trade.                                        *)
Told(t) ==
  /\ outside[t].payout + outside[t].refund
       + Coming(t, {"none", "waiting", "post", "addRefund", "pay"}) <= 1 + faults
  /\ outside[t].item + outside[t].refund
       + Coming(t, {"none", "waiting", "post", "addRefund"}) <= 1 + faults

Balanced(t) ==
  /\ outside[t].payout + (IF job.transfer[t] = "pay" THEN 1 ELSE 0) <= outside[t].item
  /\ outside[t].item <= outside[t].payout
                        + (IF job.transfer[t] = "pay" THEN 1 ELSE 0) + faults
  /\ outside[t].payout <= trade[t].payoutOut
                          + (IF job.transfer[t] = "record" THEN 1 ELSE 0) + faults
  /\ outside[t].refund <= trade[t].refundOut
                          + (IF job.refund[t] = "record" THEN 1 ELSE 0) + faults

Books(t) == Balanced(t) /\ Told(t)

(* The four invariants about books are this formula for every trade.       *)
LEMMA BooksAreAll ==
  (\A t \in Trades : Books(t))
    <=> TransfersLead /\ ItemIsPaidFor /\ OutcomeIsReserved /\ LedgerIsComplete
  BY DEF Books, Balanced, Told, TransfersLead, ItemIsPaidFor, OutcomeIsReserved, LedgerIsComplete

(* What the books of a trade are made of.                                  *)
SameBooks(t) ==
  /\ outside'[t] = outside[t]
  /\ job'.transfer[t] = job.transfer[t]
  /\ job'.refund[t] = job.refund[t]
  /\ trade'[t].payoutOut = trade[t].payoutOut
  /\ trade'[t].refundOut = trade[t].refundOut

(* A trade that a step does not touch stays balanced.                      *)
LEMMA BooksUntouched ==
  ASSUME MarketInv, Next, NEW t \in Trades, SameBooks(t)
  PROVE  Books(t)'
  <1>1. /\ Books(t)
        /\ outside[t] \in Outside /\ trade[t] \in TradeRow
    BY BooksAreAll DEF MarketInv, TypeOK
  <1>2. faults \in Nat /\ faults' \in Nat /\ faults <= faults'
    BY FaultsType, ConstantsAssumption
  <1> QED
    BY <1>1, <1>2 DEF SameBooks, Books, Balanced, Told, Coming, Outside, TradeRow

(* A failing job is sent back or ended: the failure accounts for it.       *)
LEMMA BooksBroken ==
  ASSUME MarketInv, Next, NEW t \in Trades, NEW q \in {"transfer", "refund"},
         JobFails(q, t) \/ Evict(q, t), NEW u \in Trades
  PROVE  Books(u)'
  <1>1. /\ Books(u) /\ job \in Jobs
        /\ outside[u] \in Outside /\ trade[u] \in TradeRow
    BY BooksAreAll DEF MarketInv, TypeOK
  <1>2. /\ faults' = faults + 1 /\ faults \in Nat
        /\ outside' = outside /\ trade' = trade
    BY FaultsType DEF JobFails, Evict, Fault
  <1>3. \A r \in {"transfer", "refund"} :
          job'[r][u] = job[r][u] \/ job'[r][u] \in {"none", "waiting", "done"}
    BY <1>1, BrokenJobs
  <1>4. /\ job'.transfer[u] = job.transfer[u] \/ job'.transfer[u] \in {"none", "waiting", "done"}
        /\ job'.refund[u] = job.refund[u] \/ job'.refund[u] \in {"none", "waiting", "done"}
        /\ job'.transfer[u] = job.transfer[u] \/ job'.refund[u] = job.refund[u]
    BY <1>1, <1>3, BrokenJobs
  <1>5. Balanced(u)'
    BY <1>1, <1>2, <1>4 DEF Books, Balanced, Outside, TradeRow
  <1>6. Told(u)'
    BY <1>1, <1>2, <1>4 DEF Books, Told, Coming, Outside
  <1> QED
    BY <1>5, <1>6 DEF Books

(* A verification adds the transfer job of a trade whose queue forgot it.  *)
LEMMA BooksOfCalls ==
  ASSUME MarketInv, Next, VerifyStep, NEW t \in Trades
  PROVE  Books(t)'
  <1>1. /\ job \in Jobs /\ trade \in [Trades -> TradeRow] /\ CallsAreCovered
        /\ Books(t) /\ outside[t] \in Outside /\ trade[t] \in TradeRow
    BY BooksAreAll DEF MarketInv, TypeOK
  <1>2. faults \in Nat /\ faults' \in Nat /\ faults <= faults'
    BY FaultsType, ConstantsAssumption
  <1>3. outside' = outside
    BY DEF VerifyStep, CallStep, Begin, Verify, Write, AddTransfer, Commit, CallFails
  <1>4. ASSUME NEW c \in Calls, AddTransfer(c)
        PROVE  Books(t)'
    <2>1. call[c].trade \in Trades /\ trade' = trade
      BY <1>1, <1>4 DEF AddTransfer, CallsAreCovered
    <2>2. /\ job'.refund = job.refund
          /\ job'.transfer = [job.transfer EXCEPT ![call[c].trade] =
                                IF @ = "none" THEN "waiting" ELSE @]
      BY <1>1, <1>4, <2>1, AddTransferJobs
    <2>3. \/ job'.transfer[t] = job.transfer[t]
          \/ job.transfer[t] = "none" /\ job'.transfer[t] = "waiting"
      BY <1>1, <2>2 DEF Jobs
    <2>4. CASE job'.transfer[t] = job.transfer[t]
      BY <1>3, <2>1, <2>2, <2>4, BooksUntouched DEF SameBooks
    <2>5. CASE job.transfer[t] = "none" /\ job'.transfer[t] = "waiting"
      <3>1. job'.refund[t] = job.refund[t] /\ outside'[t] = outside[t] /\ trade'[t] = trade[t]
        BY <1>3, <2>1, <2>2
      <3>2. Balanced(t)'
        BY <1>1, <1>2, <2>5, <3>1 DEF Books, Balanced, Outside, TradeRow
      <3>3. Told(t)'
        BY <1>1, <1>2, <2>5, <3>1 DEF Books, Told, Coming, Outside
      <3> QED
        BY <3>2, <3>3 DEF Books
    <2> QED
      BY <2>3, <2>4, <2>5
  <1>5. ASSUME NEW c \in Calls, Commit(c)
        PROVE  SameBooks(t)
    BY <1>1, <1>3, <1>5 DEF Commit, SameBooks, TradeRow
  <1>6. CASE UNCHANGED <<trade, job>>
    BY <1>3, <1>6, BooksUntouched DEF SameBooks
  <1> QED
    BY <1>4, <1>5, <1>6, BooksUntouched
       DEF VerifyStep, CallStep, Begin, Verify, Write, CallFails

(* A quote writes nothing that the books look at.                          *)
LEMMA BooksOfPlayers ==
  ASSUME MarketInv, Next, PlayerStep, NEW t \in Trades
  PROVE  Books(t)'
  <1>1. trade \in [Trades -> TradeRow]
    BY DEF MarketInv, TypeOK
  <1>2. outside' = outside /\ job' = job
    BY DEF PlayerStep, Pay, Spend, CreateListing, QuoteRead, QuoteWrite
  <1>3. ASSUME NEW p \in Players, NEW u \in Trades, QuoteWrite(p, u)
        PROVE  /\ trade'[t].payoutOut = trade[t].payoutOut
               /\ trade'[t].refundOut = trade[t].refundOut
    <2> DEFINE row == [trade[u] EXCEPT !.status = "ESCROW_PENDING", !.listing = quote[p],
                                       !.buyer = p]
    <2>1. trade' = [trade EXCEPT ![u] = row]
      BY <1>1, <1>3 DEF QuoteWrite
    <2>2. row.payoutOut = trade[u].payoutOut /\ row.refundOut = trade[u].refundOut
      BY <1>1 DEF TradeRow
    <2> HIDE DEF row
    <2> QED
      BY <1>1, <2>1, <2>2
  <1>4. SameBooks(t)
    BY <1>2, <1>3 DEF SameBooks, PlayerStep, Pay, Spend, CreateListing, QuoteRead
  <1> QED
    BY <1>4, BooksUntouched

(* What a step of the transfer worker leaves of trade t: the numbers that  *)
(* left and those in the ledger, the stage of its two jobs.                *)
After(t, item, payout, payoutOut, stage) ==
  /\ outside'[t].item = outside[t].item + item
  /\ outside'[t].payout = outside[t].payout + payout
  /\ outside'[t].refund = outside[t].refund
  /\ trade'[t].payoutOut = trade[t].payoutOut + payoutOut
  /\ trade'[t].refundOut = trade[t].refundOut
  /\ job'.transfer[t] = stage

(* The transfer worker's steps, on their own trade and on the others.      *)
LEMMA TransferEffects ==
  ASSUME MarketInv, Next, NEW t \in Trades, TransferStep(t) \/ TransferAnswerLost(t)
  PROVE  /\ \A u \in Trades : u # t => SameBooks(u)
         /\ \/ /\ job.transfer[t] = "waiting" /\ job'.refund[t] = job.refund[t]
               /\ After(t, 0, 0, 0, "post") \/ After(t, 0, 0, 0, "done")
            \/ /\ job.transfer[t] = "post" /\ job'.refund[t] = job.refund[t]
               /\ \/ After(t, 1, 0, 0, "pay") \/ After(t, 0, 0, 0, "addRefund")
                  \/ After(t, 1, 0, 0, "addRefund") /\ faults' = faults + 1
            \/ /\ job.transfer[t] = "addRefund" /\ After(t, 0, 0, 0, "done")
               /\ job'.refund[t] = IF job.refund[t] = "none" THEN "waiting" ELSE job.refund[t]
            \/ /\ job.transfer[t] = "pay" /\ job'.refund[t] = job.refund[t]
               /\ After(t, 0, 1, 0, "record")
            \/ /\ job.transfer[t] = "record" /\ job'.refund[t] = job.refund[t]
               /\ After(t, 0, 0, 1, "notify")
            \/ /\ job.transfer[t] = "notify" /\ job'.refund[t] = job.refund[t]
               /\ After(t, 0, 0, 0, "done")
  <1>1. /\ job \in Jobs /\ trade \in [Trades -> TradeRow] /\ outside \in [Trades -> Outside]
    BY DEF MarketInv, TypeOK
  <1>2. ASSUME NEW from, NEW to, TransferGoes(t, from, to), job'.refund = job.refund
        PROVE  /\ job.transfer[t] = from /\ job'.transfer[t] = to
               /\ \A u \in Trades : job'.refund[u] = job.refund[u]
               /\ \A u \in Trades : u # t => job'.transfer[u] = job.transfer[u]
    BY <1>1, <1>2, StageAfter
  <1>3. ASSUME UNCHANGED <<outside, trade>>
        PROVE  /\ \A u \in Trades : outside'[u] = outside[u] /\ trade'[u] = trade[u]
               /\ \A stage : job'.transfer[t] = stage => After(t, 0, 0, 0, stage)
    BY <1>1, <1>3 DEF After, Outside, TradeRow
  <1>4. ASSUME outside' = [outside EXCEPT ![t].item = @ + 1], trade' = trade
        PROVE  /\ \A u \in Trades : u # t => outside'[u] = outside[u] /\ trade'[u] = trade[u]
               /\ \A stage : job'.transfer[t] = stage => After(t, 1, 0, 0, stage)
    BY <1>1, <1>4 DEF After, Outside, TradeRow
  <1>5. CASE TransferStart(t)
    <2>1. UNCHANGED <<outside, trade>>
      BY <1>5 DEF TransferStart
    <2>2. /\ job'.refund = job.refund
          /\ TransferGoes(t, "waiting", "post") \/ TransferGoes(t, "waiting", "done")
      BY <1>1, <1>5, TransferJobs
    <2> QED
      BY <1>2, <1>3, <2>1, <2>2 DEF SameBooks
  <1>6. CASE TransferDone(t)
    <2>1. outside' = [outside EXCEPT ![t].item = @ + 1] /\ trade' = trade
      BY <1>6 DEF TransferDone, GameMoves
    <2>2. TransferGoes(t, "post", "pay") /\ job'.refund = job.refund
      BY <1>1, <1>6, TransferJobs
    <2> QED
      BY <1>2, <1>4, <2>1, <2>2 DEF SameBooks
  <1>7. CASE TransferRefused(t)
    <2>1. UNCHANGED <<outside, trade>>
      BY <1>7 DEF TransferRefused
    <2>2. TransferGoes(t, "post", "addRefund") /\ job'.refund = job.refund
      BY <1>1, <1>7, TransferJobs
    <2> QED
      BY <1>2, <1>3, <2>1, <2>2 DEF SameBooks
  <1>8. CASE TransferAnswerLost(t)
    <2>1. outside' = [outside EXCEPT ![t].item = @ + 1] /\ trade' = trade /\ faults' = faults + 1
      BY <1>8 DEF TransferAnswerLost, GameMoves, Fault
    <2>2. TransferGoes(t, "post", "addRefund") /\ job'.refund = job.refund
      BY <1>1, <1>8, TransferJobs
    <2> QED
      BY <1>2, <1>4, <2>1, <2>2 DEF SameBooks
  <1>9. CASE AddRefund(t)
    <2>1. UNCHANGED <<outside, trade>>
      BY <1>9 DEF AddRefund
    <2>2. /\ TransferGoes(t, "addRefund", "done")
          /\ job'.refund = [job.refund EXCEPT ![t] = IF @ = "none" THEN "waiting" ELSE @]
      BY <1>1, <1>9, AddRefundJobs
    <2>3. /\ job'.refund[t] = IF job.refund[t] = "none" THEN "waiting" ELSE job.refund[t]
          /\ \A u \in Trades : u # t => job'.refund[u] = job.refund[u]
      BY <1>1, <2>2 DEF Jobs
    <2>4. /\ job.transfer[t] = "addRefund" /\ job'.transfer[t] = "done"
          /\ \A u \in Trades : u # t => job'.transfer[u] = job.transfer[u]
      BY <1>1, <2>2, StageAfter
    <2> QED
      BY <1>3, <2>1, <2>3, <2>4 DEF SameBooks
  <1>10. CASE PaySeller(t)
    <2>1. outside' = [outside EXCEPT ![t].payout = @ + 1] /\ trade' = trade
      BY <1>10 DEF PaySeller
    <2>2. TransferGoes(t, "pay", "record") /\ job'.refund = job.refund
      BY <1>1, <1>10, TransferJobs
    <2>3. \A u \in Trades : u # t => outside'[u] = outside[u]
      BY <1>1, <2>1
    <2>4. After(t, 0, 1, 0, "record")
      BY <1>1, <1>2, <2>1, <2>2 DEF After, Outside, TradeRow
    <2> QED
      BY <1>2, <2>1, <2>2, <2>3, <2>4 DEF SameBooks
  <1>11. CASE Record(t)
    <2>1. /\ trade' = [trade EXCEPT ![t].status = "COMPLETED", ![t].payoutOut = @ + 1]
          /\ outside' = outside
      BY <1>11 DEF Record
    <2>2. TransferGoes(t, "record", "notify") /\ job'.refund = job.refund
      BY <1>1, <1>11, TransferJobs
    <2>3. \A u \in Trades : u # t => trade'[u] = trade[u]
      BY <1>1, <2>1
    <2>4. /\ trade'[t].payoutOut = trade[t].payoutOut + 1
          /\ trade'[t].refundOut = trade[t].refundOut
      BY <1>1, <2>1 DEF TradeRow
    <2>5. After(t, 0, 0, 1, "notify")
      BY <1>1, <1>2, <2>1, <2>2, <2>4 DEF After, Outside
    <2> QED
      BY <1>2, <2>1, <2>2, <2>3, <2>5 DEF SameBooks
  <1>12. CASE Notify(t)
    <2>1. UNCHANGED <<outside, trade>>
      BY <1>12 DEF Notify
    <2>2. TransferGoes(t, "notify", "done") /\ job'.refund = job.refund
      BY <1>1, <1>12, NotifyJobs
    <2> QED
      BY <1>2, <1>3, <2>1, <2>2 DEF SameBooks
  <1> QED
    BY <1>5, <1>6, <1>7, <1>8, <1>9, <1>10, <1>11, <1>12 DEF TransferStep

(* Each stage of a transfer keeps the books of its trade.                  *)
LEMMA BooksOfTransfers ==
  ASSUME MarketInv, Next, NEW t \in Trades, TransferStep(t) \/ TransferAnswerLost(t),
         NEW u \in Trades
  PROVE  Books(u)'
  <1>1. CASE u # t
    BY <1>1, TransferEffects, BooksUntouched
  <1>2. CASE u = t
    <2>1. /\ Books(t) /\ outside[t] \in Outside /\ trade[t] \in TradeRow
          /\ job.refund[t] \in {"none", "waiting", "record", "done"}
      BY BooksAreAll DEF MarketInv, TypeOK, Jobs
    <2>2. faults \in Nat /\ faults' \in Nat /\ faults <= faults'
      BY FaultsType, ConstantsAssumption
    <2>3. Balanced(t)'
      BY <2>1, <2>2, TransferEffects DEF After, Books, Balanced, Outside, TradeRow
    <2>4. Told(t)'
      BY <2>1, <2>2, TransferEffects DEF After, Books, Told, Coming, Outside
    <2> QED
      BY <1>2, <2>3, <2>4 DEF Books
  <1> QED
    BY <1>1, <1>2

(* Each stage of a refund keeps the books of its trade.                    *)
LEMMA BooksOfRefunds ==
  ASSUME MarketInv, Next, NEW t \in Trades, RefundStep(t), NEW u \in Trades
  PROVE  Books(u)'
  <1>1. /\ job \in Jobs /\ trade \in [Trades -> TradeRow] /\ outside \in [Trades -> Outside]
        /\ Books(t)
    BY BooksAreAll DEF MarketInv, TypeOK
  <1>2. faults \in Nat /\ faults' \in Nat /\ faults <= faults'
    BY FaultsType, ConstantsAssumption
  <1>3. CASE RefundSend(t)
    <2>1. outside' = [outside EXCEPT ![t].refund = @ + 1] /\ trade' = trade
      BY <1>3 DEF RefundSend
    <2>2. /\ job.refund[t] = "waiting" /\ job'.transfer = job.transfer
          /\ job'.refund = [job.refund EXCEPT ![t] = "record"]
      BY <1>1, <1>3, RefundJobs
    <2>3. u # t => SameBooks(u)
      BY <1>1, <2>1, <2>2 DEF SameBooks, Jobs
    <2>4. /\ outside'[t].refund = outside[t].refund + 1
          /\ outside'[t].item = outside[t].item /\ outside'[t].payout = outside[t].payout
          /\ job'.refund[t] = "record"
      BY <1>1, <2>1, <2>2 DEF Outside, Jobs
    <2>5. outside[t] \in Outside /\ trade[t] \in TradeRow
      BY <1>1
    <2>6. Balanced(t)'
      BY <1>1, <1>2, <2>1, <2>2, <2>4, <2>5 DEF Books, Balanced, Outside, TradeRow
    <2>7. Told(t)'
      BY <1>1, <1>2, <2>1, <2>2, <2>4, <2>5 DEF Books, Told, Coming, Outside
    <2> QED
      BY <2>3, <2>6, <2>7, BooksUntouched DEF Books
  <1>4. CASE RefundRecord(t)
    <2>1. /\ trade' = [trade EXCEPT ![t].status = "REFUNDED", ![t].refundOut = @ + 1]
          /\ outside' = outside
      BY <1>4 DEF RefundRecord
    <2>2. /\ job.refund[t] = "record" /\ job'.transfer = job.transfer
          /\ job'.refund = [job.refund EXCEPT ![t] = "done"]
      BY <1>1, <1>4, RefundJobs
    <2>3. u # t => SameBooks(u)
      BY <1>1, <2>1, <2>2 DEF SameBooks, Jobs
    <2>4. /\ trade'[t].refundOut = trade[t].refundOut + 1
          /\ trade'[t].payoutOut = trade[t].payoutOut
      BY <1>1, <2>1 DEF TradeRow
    <2>5. job'.refund[t] = "done" /\ outside[t] \in Outside /\ trade[t] \in TradeRow
      BY <1>1, <2>2 DEF Jobs
    <2>6. Balanced(t)'
      BY <1>1, <1>2, <2>1, <2>2, <2>4, <2>5 DEF Books, Balanced, Outside, TradeRow
    <2>7. Told(t)'
      BY <1>1, <1>2, <2>1, <2>2, <2>5 DEF Books, Told, Coming, Outside
    <2> QED
      BY <2>3, <2>6, <2>7, BooksUntouched DEF Books
  <1> QED
    BY <1>3, <1>4 DEF RefundStep

(* Every step keeps every trade's books.                                   *)
LEMMA BooksStay ==
  ASSUME MarketInv, Next
  PROVE  (TransfersLead /\ ItemIsPaidFor /\ OutcomeIsReserved /\ LedgerIsComplete)'
  <1>1. ASSUME NEW u \in Trades
        PROVE  Books(u)'
    BY BooksOfPlayers, BooksOfCalls, BooksOfTransfers, BooksOfRefunds, BooksBroken, StepGroups
       DEF JobStep
  <1> QED
    BY <1>1 DEF Books, Balanced, Told, TransfersLead, ItemIsPaidFor, OutcomeIsReserved,
       LedgerIsComplete

--------------------------------------------------------------------------------
(* The invariant and what it gives                                         *)

(* The first state has no trade.                                           *)
LEMMA InitInv == Init => MarketInv
  <1> SUFFICES ASSUME Init
               PROVE  MarketInv
    OBVIOUS
  <1>1. TypeOK
    <2>1. << >> \in Seq(Payment(Memos, Amounts))
      OBVIOUS
    <2>2. NoCall \in Call
      BY DEF NoCall, Call, NoTx
    <2> QED
      BY <2>1, <2>2, ConstantsAssumption
         DEF Init, TypeOK, ListingRow, TradeRow, Outside, Jobs, NoTx
  <1>2. \A t \in Trades : ~Escrowed(t)
    BY DEF Init, Escrowed
  <1>3. CallsAreCovered
    BY DEF Init, CallsAreCovered, NoCall
  <1>4. RowsAreLinked
    BY DEF Init, RowsAreLinked
  <1>5. EscrowIsBacked
    BY <1>2 DEF EscrowIsBacked
  <1>6. JobsAreEscrowed /\ ReleasedIsEscrowed
    BY DEF Init, JobsAreEscrowed, ReleasedIsEscrowed
  <1>7. \A t \in Trades : Books(t)
    BY DEF Init, Books, Balanced, Told, Coming
  <1> QED
    BY <1>1, <1>3, <1>4, <1>5, <1>6, <1>7, BooksAreAll DEF MarketInv

(* Every step keeps the invariant.                                         *)
LEMMA NextInv == MarketInv /\ [Next]_vars => MarketInv'
  <1>1. ASSUME MarketInv, Next
        PROVE  MarketInv'
    BY <1>1, NextKeepsTypes, CallsStayCovered, RowsStayLinked, EscrowStaysBacked,
       JobsStayEscrowed, ReleasedStaysEscrowed, BooksStay DEF MarketInv
  <1>2. ASSUME MarketInv, UNCHANGED vars
        PROVE  MarketInv'
    BY <1>2 DEF vars, MarketInv, TypeOK, CallsAreCovered, Covers, RowsAreLinked,
       EscrowIsBacked, Escrowed, JobsAreEscrowed, ReleasedIsEscrowed, TransfersLead,
       ItemIsPaidFor, OutcomeIsReserved, Coming, LedgerIsComplete
  <1> QED
    BY <1>1, <1>2

(* The invariant holds for any number of players, listings, trades,        *)
(* verifications, payments and failures.                                   *)
THEOREM MarketIsSound == Spec => []MarketInv
  BY InitInv, NextInv, PTL DEF Spec

(* verifyAndAdvanceP2PTrade: no trade is ever taken for paid without a     *)
(* payment into escrow that names it and covers the price of its listing.  *)
THEOREM EscrowCorrect == Spec => []EscrowIsBacked
  <1>1. MarketInv => EscrowIsBacked
    BY DEF MarketInv
  <1> QED
    BY <1>1, MarketIsSound, PTL

(* Every reachable state is well typed: rows, calls, jobs and the counts   *)
(* of what was sent stay what they are.                                    *)
THEOREM TypeCorrect == Spec => []TypeOK
  <1>1. MarketInv => TypeOK
    BY DEF MarketInv
  <1> QED
    BY <1>1, MarketIsSound, PTL

(* transferItemAndPayout and the refund worker release nothing of a trade  *)
(* that has not been escrowed.                                             *)
THEOREM ReleasedCorrect == Spec => []ReleasedIsEscrowed
  <1>1. MarketInv => ReleasedIsEscrowed
    BY DEF MarketInv
  <1> QED
    BY <1>1, MarketIsSound, PTL

(* No payout of the workers precedes a transfer of its own.                *)
THEOREM ReleaseCorrect == Spec => []ReleasedAfterTransfer
  <1>1. ASSUME MarketInv
        PROVE  ReleasedAfterTransfer
    <2>1. \A t \in Trades : outside[t] \in Outside
      BY <1>1 DEF MarketInv, TypeOK
    <2> QED
      BY <1>1, <2>1 DEF MarketInv, Outside, TransfersLead, ReleasedAfterTransfer
  <1> QED
    BY <1>1, MarketIsSound, PTL

(* The workers between them: a trade ends in one payout for one item or in *)
(* one refund, and each failure adds one of these at most.                 *)
THEOREM OutcomeCorrect == Spec => []OneOutcome
  <1>1. ASSUME MarketInv, NEW t \in Trades
        PROVE  /\ outside[t].payout + outside[t].refund <= 1 + faults
               /\ outside[t].item + outside[t].refund <= 1 + faults
    <2>1. outside[t] \in Outside /\ faults \in Nat
      BY <1>1, ConstantsAssumption DEF MarketInv, TypeOK, ConstantsAssumption
    <2> QED
      BY <1>1, <2>1 DEF MarketInv, OutcomeIsReserved, Coming, Outside
  <1>2. MarketInv => OneOutcome
    BY <1>1 DEF OneOutcome
  <1> QED
    BY <1>2, MarketIsSound, PTL

(* The ledger entries of the workers keep up with what they send, but for  *)
(* one per failure ...                                                     *)
THEOREM LedgerCorrect == Spec => []LedgerIsComplete
  <1>1. MarketInv => LedgerIsComplete
    BY DEF MarketInv
  <1> QED
    BY <1>1, MarketIsSound, PTL

(* ... and so does the payout of the seller with the item.                 *)
THEOREM PaidForCorrect == Spec => []ItemIsPaidFor
  <1>1. MarketInv => ItemIsPaidFor
    BY DEF MarketInv
  <1> QED
    BY <1>1, MarketIsSound, PTL

================================================================================
