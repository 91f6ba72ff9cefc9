------------------------------ MODULE Settlement -------------------------------
(***************************************************************************)
(* The primary sale of xGameFi, from the buyer's payment on chain to the   *)
(* payout of the studio and the delivery (or refund) of the item.          *)
(*                                                                         *)
(* Concurrent executions of verifyAndAdvanceOrder (callers: HTTP requests  *)
(* to checkout/submit, and stellar-watcher poll jobs) share the database   *)
(* with the payout, webhook-delivery and refund workers.  Every database   *)
(* transaction, HTTP exchange and queue operation is a step of its own, so *)
(* whatever one process has read may be stale when it writes.  Any of them *)
(* may fail at any step; MaxFaults bounds how many such failures happen.   *)
(***************************************************************************)
EXTENDS Integers, Sequences, Stellar, Queues

CONSTANTS
  Orders, NoOrder,     \* the orders already quoted, and a null order
  Players, Buyer,      \* Buyer[o]: the player of order o
  Memos, Memo,         \* Memo[o]: the id of o truncated to a Stellar text memo
  Amounts, Due,        \* Due[o]: grossAmount - discountAmount
  Webhook,             \* Webhook[o]: the studio's webhookUrl ("none" when unset)
  Wallets,             \* orders whose studio has a payout wallet
  MaxAttempts,         \* WEBHOOK_MAX_ATTEMPTS
  Requests, Pollers,   \* concurrent checkout/submit requests and poll jobs
  MaxPayments,         \* bound: payments the buyers make
  MaxFaults,           \* bound: failures of processes and evictions of job ids
  MaxGrants            \* bound: where the count of granted items saturates

Callers == Requests \cup Pollers

ASSUME ConstantsAssumption ==
  /\ NoOrder \notin Orders
  /\ Buyer \in [Orders -> Players]
  /\ Memo \in [Orders -> Memos]
  /\ Amounts \subseteq Nat /\ Due \in [Orders -> Nat]
  /\ Webhook \in [Orders -> {"none", "game", "mock"}]
  /\ Wallets \subseteq Orders
  /\ MaxAttempts \in Nat \ {0} /\ MaxGrants \in Nat \ {0}
  /\ MaxPayments \in Nat /\ MaxFaults \in Nat

VARIABLES
  chain,       \* payments the platform account has received, in ledger order
  order,       \* the Order rows, their ledger entries and delivery rows
  outside,     \* what has left the platform for each order
  referral,    \* the referral whose referee is the player, and its reward job
  job,         \* the payout, webhook and refund queues
  call,        \* the execution of verifyAndAdvanceOrder of each caller
  poll,        \* the poll job of each poller
  cursor,      \* stellar-watcher:cursor in Redis
  faults       \* failures and evictions so far

vars == <<chain, order, outside, referral, job, call, poll, cursor, faults>>

OrderRow ==
  [paymentStatus : {"PENDING", "PAID", "REFUNDED"},
   deliveryStatus : {"PENDING", "DELIVERED", "FAILED"},
   stellarTxHash : Nat,
   saleIn : Nat, payoutOut : Nat, refundOut : Nat,   \* LedgerEntry rows by type
   delivery : BOOLEAN]                               \* has a WebhookDelivery row

Outside == [payout : Nat, refund : Nat, item : 0..MaxGrants]

Referral == [status : {"NONE", "PENDING", "QUALIFIED"},
             qualifyingOrder : Orders \cup {NoOrder}, queued : BOOLEAN]

Jobs == [payout : [Orders -> {"none", "waiting", "send", "record", "done"}],
         webhook : [Orders -> {"none", "waiting", "create", "post", "acked",
                               "nacked", "addRefund", "done"}],
         refund : [Orders -> {"none", "waiting", "record", "done"}]]

(* What is left to do once the order is PAID, in this order.               *)
FollowUps == {"payout", "webhook", "reward", "fastPath"}

Call == [at : {"idle", "read", "verified", "written", "settled", "follow", "post",
               "record"},
         order : Orders \cup {NoOrder}, tx : Nat, todo : SUBSET FollowUps]

NoCall == [at |-> "idle", order |-> NoOrder, tx |-> NoTx, todo |-> {}]

Poll == [at : {"idle", "fetched", "advancing"}, seen : SUBSET Nat, next : Nat,
         todo : SUBSET (Orders \X Nat)]

NoPoll == [at |-> "idle", seen |-> {}, next |-> 0, todo |-> {}]

Init ==
  /\ chain = << >>
  /\ order = [o \in Orders |->
       [paymentStatus |-> "PENDING", deliveryStatus |-> "PENDING",
        stellarTxHash |-> NoTx, saleIn |-> 0, payoutOut |-> 0, refundOut |-> 0,
        delivery |-> FALSE]]
  /\ outside = [o \in Orders |-> [payout |-> 0, refund |-> 0, item |-> 0]]
  /\ referral = [p \in Players |->
       [status |-> "NONE", qualifyingOrder |-> NoOrder, queued |-> FALSE]]
  /\ LET empty == [o \in Orders |-> "none"]
     IN job = [payout |-> empty, webhook |-> empty, refund |-> empty]
  /\ call = [c \in Callers |-> NoCall]
  /\ poll = [p \in Pollers |-> NoPoll]
  /\ cursor = 0
  /\ faults = 0

(* One failure more, within the bound.                                     *)
Fault == faults < MaxFaults /\ faults' = faults + 1

--------------------------------------------------------------------------------
(* Anybody may pay the platform account, with any memo and amount: too     *)
(* little, twice for one order, or for no order at all.                    *)
Pay(memo, amount) ==
  /\ Len(chain) < MaxPayments
  /\ chain' = Append(chain, [memo |-> memo, amount |-> amount])
  /\ UNCHANGED <<order, outside, referral, job, call, poll, cursor, faults>>

(* referrals/bind: a player names the player who invited him, at any time. *)
Bind(p) ==
  /\ referral[p].status = "NONE"
  /\ referral' = [referral EXCEPT ![p].status = "PENDING"]
  /\ UNCHANGED <<chain, order, outside, job, call, poll, cursor, faults>>

(* Mutant: a hash Horizon does not know is taken for a payment.            *)
ConfirmsUnknown(t, o) ==
  t > Len(chain) \/ VerifyPayment(chain, t, Memo[o], Due[o])

Confirms(t, o) == VerifyPayment(chain, t, Memo[o], Due[o])

--------------------------------------------------------------------------------
(***************************************************************************)
(* verifyAndAdvanceOrder.                                                  *)
(***************************************************************************)

(* Mutant: the hash the client reports is not verified.                    *)
BeginTrusting(c, o, t) ==
  call' = [call EXCEPT ![c] = [NoCall EXCEPT !.at = "verified", !.order = o,
                                             !.tx = t]]

(* Its first read: a PAID order gives the result ALREADY at once, any      *)
(* other, a REFUNDED one too, is verified.                                 *)
Begin(c, o, t) ==
  call' = [call EXCEPT ![c] =
             IF order[o].paymentStatus = "PAID"
               THEN [NoCall EXCEPT !.at = "settled", !.order = o]
               ELSE [NoCall EXCEPT !.at = "read", !.order = o, !.tx = t]]

Return(c) == call' = [call EXCEPT ![c] = NoCall]

(* checkout/submit: a client names any order and any transaction hash.     *)
Submit(c, o, t) ==
  /\ call[c].at = "idle"
  /\ Begin(c, o, t)
  /\ UNCHANGED <<chain, order, outside, referral, job, poll, cursor, faults>>

HeldByAnother(t, o) == \E other \in Orders \ {o} : order[other].stellarTxHash = t

(* verifyPayment against Horizon, then the replay guard on the hash.       *)
Verify(c) ==
  /\ call[c].at = "read"
  /\ IF /\ Confirms(call[c].tx, call[c].order)
        /\ ~HeldByAnother(call[c].tx, call[c].order)
       THEN call' = [call EXCEPT ![c].at = "verified"]
       ELSE Return(c)
  /\ UNCHANGED <<chain, order, outside, referral, job, poll, cursor, faults>>

NoOtherPaid(o) ==
  \A other \in Orders \ {o} :
    Buyer[other] = Buyer[o] => order[other].paymentStatus # "PAID"

(* Mutant: no unique index backs the replay guard.                         *)
TxHashNotIndexed(t, o) == TRUE

(* The unique index on Order.stellarTxHash.                                *)
TxHashFree(t, o) == ~HeldByAnother(t, o)

(* A transaction that has updated the same order, or has taken the same    *)
(* hash, is still open: the update waits for it.                           *)
Locked(c) ==
  \E d \in Callers \ {c} :
    /\ call[d].at = "written"
    /\ call[d].order = call[c].order \/ call[d].tx = call[c].tx

(* The update and the count of the player's other PAID orders.  Others see *)
(* the update at the commit only.  It names the order by its id: it does   *)
(* not require it to be still PENDING.                                     *)
Write(c) ==
  LET o == call[c].order
  IN /\ call[c].at = "verified"
     /\ ~Locked(c)
     /\ TxHashFree(call[c].tx, o)
     /\ call' = [call EXCEPT ![c].at = "written",
                             ![c].todo = IF NoOtherPaid(o) THEN {"reward"} ELSE {}]
     /\ UNCHANGED <<chain, order, outside, referral, job, poll, cursor, faults>>

(* The unique index refuses the update: the transaction rolls back.        *)
CommitRefused(c) ==
  /\ call[c].at = "verified"
  /\ ~Locked(c)
  /\ ~TxHashFree(call[c].tx, call[c].order)
  /\ Return(c)
  /\ UNCHANGED <<chain, order, outside, referral, job, poll, cursor, faults>>

(* Mutant: the compare-and-set on PENDING is missing.                      *)
QualifiesAgain(c) ==
  "reward" \in call[c].todo /\ referral[Buyer[call[c].order]].status # "NONE"

(* No other PAID order was counted, and the referral is (still) PENDING.   *)
Qualifies(c) ==
  "reward" \in call[c].todo /\ referral[Buyer[call[c].order]].status = "PENDING"

Commit(c) ==
  LET o == call[c].order
  IN /\ call[c].at = "written"
     /\ order' = [order EXCEPT ![o].paymentStatus = "PAID",
                               ![o].stellarTxHash = call[c].tx,
                               ![o].saleIn = @ + 1]
     /\ referral' = IF Qualifies(c)
                      THEN [referral EXCEPT ![Buyer[o]].status = "QUALIFIED",
                                            ![Buyer[o]].qualifyingOrder = o]
                      ELSE referral
     /\ call' = [call EXCEPT ![c] =
                   [at |-> "settled", order |-> o, tx |-> NoTx,
                    todo |-> IF Qualifies(c) THEN {"reward"} ELSE {}]]
     /\ UNCHANGED <<chain, outside, job, poll, cursor, faults>>

(* Mutant: the payout is not among the follow-ups.                         *)
MissingDelivery(o) ==
  {f \in {"webhook", "fastPath"} :
     IF f = "webhook" THEN ~order[o].delivery ELSE Webhook[o] = "mock"}

(* After the commit: which of the follow-up records are missing?           *)
Missing(o) ==
  (IF order[o].payoutOut > 0 THEN {} ELSE {"payout"})
    \cup (IF order[o].delivery THEN {} ELSE {"webhook"})
    \cup (IF Webhook[o] = "mock" THEN {"fastPath"} ELSE {})

Continue(c, left) ==
  IF left = {} THEN Return(c)
  ELSE call' = [call EXCEPT ![c].at = "follow", ![c].todo = left]

ReadMissing(c) ==
  /\ call[c].at = "settled"
  /\ Continue(c, call[c].todo \cup Missing(call[c].order))
  /\ UNCHANGED <<chain, order, outside, referral, job, poll, cursor, faults>>

(* The follow-ups are awaited one after the other.                         *)
IsNext(c, step, earlier) ==
  /\ call[c].at = "follow"
  /\ step \in call[c].todo
  /\ call[c].todo \cap earlier = {}

AddJob(c, q, earlier) ==
  /\ IsNext(c, q, earlier)
  /\ job' = Add(job, q, call[c].order)
  /\ Continue(c, call[c].todo \ {q})
  /\ UNCHANGED <<chain, order, outside, referral, poll, cursor, faults>>

AddReward(c) ==
  /\ IsNext(c, "reward", {"payout", "webhook"})
  /\ referral' = [referral EXCEPT ![Buyer[call[c].order]].queued = TRUE]
  /\ Continue(c, call[c].todo \ {"reward"})
  /\ UNCHANGED <<chain, order, outside, job, poll, cursor, faults>>

--------------------------------------------------------------------------------
(* deliverMockGameWebhook, the fast path of orders of the bundled mock     *)
(* game, goes on after verifyAndAdvanceOrder has answered its caller.      *)
FastPathRead(c) ==
  LET o == call[c].order
  IN /\ IsNext(c, "fastPath", {"payout", "webhook", "reward"})
     /\ IF order[o].paymentStatus = "PAID" /\ order[o].deliveryStatus # "DELIVERED"
          THEN call' = [call EXCEPT ![c].at = "post", ![c].todo = {}]
          ELSE Return(c)
     /\ UNCHANGED <<chain, order, outside, referral, job, poll, cursor, faults>>

(* The game acts on a purchase.completed webhook.                          *)
Grant(o) ==
  outside' = [outside EXCEPT ![o].item = IF @ < MaxGrants THEN @ + 1 ELSE @]

(* It may grant and answer 2xx, grant with its answer lost, or refuse.     *)
FastPathPost(c) ==
  /\ call[c].at = "post"
  /\ \/ Grant(call[c].order) /\ call' = [call EXCEPT ![c].at = "record"]
     \/ Grant(call[c].order) /\ Return(c)
     \/ UNCHANGED outside /\ Return(c)
  /\ UNCHANGED <<chain, order, referral, job, poll, cursor, faults>>

FastPathRecord(c) ==
  /\ call[c].at = "record"
  /\ order' = [order EXCEPT ![call[c].order].deliveryStatus = "DELIVERED",
                            ![call[c].order].delivery = TRUE]
  /\ Return(c)
  /\ UNCHANGED <<chain, outside, referral, job, poll, cursor, faults>>

(* An exception, an expired transaction or a lost process ends a call; a   *)
(* poll job swallows it and goes on with its next match.                   *)
CallFails(c) ==
  /\ call[c].at # "idle"
  /\ Fault
  /\ Return(c)
  /\ UNCHANGED <<chain, order, outside, referral, job, poll, cursor>>

--------------------------------------------------------------------------------
(***************************************************************************)
(* stellar-watcher: a poll job reads the payments after the cursor, then   *)
(* the pending orders, advances the matching orders one after the other,   *)
(* and only then stores the new cursor.                                    *)
(***************************************************************************)

(* Mutant: the cursor points past the last record.                         *)
PageEndPastTip == Len(chain) + 1

(* The paging token of the last record of the page.                        *)
PageEnd == Len(chain)

(* Records whose transaction cannot be fetched are logged and left out.    *)
PollFetch(p, lost) ==
  LET page == cursor + 1 .. Len(chain)
  IN /\ poll[p].at = "idle"
     /\ page # {}
     /\ lost \subseteq page
     /\ IF lost = {} THEN UNCHANGED faults ELSE Fault
     /\ poll' = [poll EXCEPT ![p] = [at |-> "fetched", seen |-> page \ lost,
                                     next |-> PageEnd, todo |-> {}]]
     /\ UNCHANGED <<chain, order, outside, referral, job, call, cursor>>

Pending == {o \in Orders : order[o].paymentStatus = "PENDING"}

(* pendingIds maps a memo to one order: the others with it drop out.       *)
OnePerMemo(owners) ==
  \A o \in Pending : \E w \in owners :
    Memo[w] = Memo[o] /\ \A v \in owners : Memo[v] = Memo[o] => v = w

(* Mutant: the memo is compared with the full id, not the truncated one.   *)
MatchedFullId(owners, seen) ==
  {m \in owners \X seen : chain[m[2]].memo = m[1]}

(* matchAndAdvancePayments.                                                *)
Matched(owners, seen) ==
  {m \in owners \X seen : chain[m[2]].memo = Memo[m[1]]}

PollMatch(p) ==
  /\ poll[p].at = "fetched"
  /\ \E owners \in SUBSET Pending :
       /\ OnePerMemo(owners)
       /\ poll' = [poll EXCEPT ![p].at = "advancing",
                               ![p].todo = Matched(owners, poll[p].seen)]
  /\ UNCHANGED <<chain, order, outside, referral, job, call, cursor, faults>>

PollAdvance(p) ==
  /\ poll[p].at = "advancing"
  /\ call[p].at = "idle"
  /\ \E m \in poll[p].todo :
       /\ \A other \in poll[p].todo : m[2] <= other[2]
       /\ Begin(p, m[1], m[2])
       /\ poll' = [poll EXCEPT ![p].todo = @ \ {m}]
  /\ UNCHANGED <<chain, order, outside, referral, job, cursor, faults>>

(* Mutant: the cursor is moved to the newest payment instead.              *)
NewCursorLatest(p) == Len(chain)

(* The cursor a poll job stores is the end of the page it has read.        *)
NewCursor(p) == poll[p].next

PollDone(p) ==
  /\ poll[p].at = "advancing"
  /\ call[p].at = "idle"
  /\ poll[p].todo = {}
  /\ cursor' = NewCursor(p)
  /\ poll' = [poll EXCEPT ![p] = NoPoll]
  /\ UNCHANGED <<chain, order, outside, referral, job, call, faults>>

(* A poll job dies, or Horizon fails it, before it stores the cursor.      *)
PollFails(p) ==
  /\ poll[p].at # "idle"
  /\ Fault
  /\ poll' = [poll EXCEPT ![p] = NoPoll]
  /\ Return(p)
  /\ UNCHANGED <<chain, order, outside, referral, job, cursor>>

--------------------------------------------------------------------------------
(***************************************************************************)
(* The payout worker.                                                      *)
(***************************************************************************)
PayoutStart(o) ==
  /\ job["payout"][o] = "waiting"
  /\ job' = Move(job, "payout", o,
                 IF order[o].paymentStatus = "PAID" /\ o \in Wallets
                   THEN "send" ELSE "done")
  /\ UNCHANGED <<chain, order, outside, referral, call, poll, cursor, faults>>

PayoutSend(o) ==
  /\ job["payout"][o] = "send"
  /\ outside' = [outside EXCEPT ![o].payout = @ + 1]
  /\ job' = Move(job, "payout", o, "record")
  /\ UNCHANGED <<chain, order, referral, call, poll, cursor, faults>>

PayoutRecord(o) ==
  /\ job["payout"][o] = "record"
  /\ order' = [order EXCEPT ![o].payoutOut = @ + 1]
  /\ job' = Move(job, "payout", o, "done")
  /\ UNCHANGED <<chain, outside, referral, call, poll, cursor, faults>>

(***************************************************************************)
(* The webhook-delivery worker.  Every run creates a delivery row of its   *)
(* own with attempt 0, so a failed POST always makes attempt 1.            *)
(***************************************************************************)
Deliverable(o) == /\ order[o].deliveryStatus # "DELIVERED"
                  /\ order[o].paymentStatus = "PAID"
                  /\ Webhook[o] # "none"

WebhookStart(o) ==
  /\ job["webhook"][o] = "waiting"
  /\ job' = Move(job, "webhook", o, IF Deliverable(o) THEN "create" ELSE "done")
  /\ UNCHANGED <<chain, order, outside, referral, call, poll, cursor, faults>>

WebhookCreate(o) ==
  /\ job["webhook"][o] = "create"
  /\ order' = [order EXCEPT ![o].delivery = TRUE]
  /\ job' = Move(job, "webhook", o, "post")
  /\ UNCHANGED <<chain, outside, referral, call, poll, cursor, faults>>

(* Mutant: the status of the answer is not looked at.                      *)
WebhookPostUnchecked(o) ==
  /\ job["webhook"][o] = "post"
  /\ Grant(o) \/ UNCHANGED outside
  /\ job' = Move(job, "webhook", o, "acked")
  /\ UNCHANGED <<chain, order, referral, call, poll, cursor, faults>>

WebhookPost(o) ==
  /\ job["webhook"][o] = "post"
  /\ \/ Grant(o) /\ job' = Move(job, "webhook", o, "acked")
     \/ Grant(o) /\ job' = Move(job, "webhook", o, "nacked")
     \/ UNCHANGED outside /\ job' = Move(job, "webhook", o, "nacked")
  /\ UNCHANGED <<chain, order, referral, call, poll, cursor, faults>>

WebhookDelivered(o) ==
  /\ job["webhook"][o] = "acked"
  /\ order' = [order EXCEPT ![o].deliveryStatus = "DELIVERED"]
  /\ job' = Move(job, "webhook", o, "done")
  /\ UNCHANGED <<chain, outside, referral, call, poll, cursor, faults>>

(* The transaction that records the 2xx fails: the catch block takes it    *)
(* for a network error.                                                    *)
WebhookDeliveredFails(o) ==
  /\ job["webhook"][o] = "acked"
  /\ Fault
  /\ job' = Move(job, "webhook", o, "nacked")
  /\ UNCHANGED <<chain, order, outside, referral, call, poll, cursor>>

Exhausted == 1 >= MaxAttempts

WebhookNotDelivered(o) ==
  /\ job["webhook"][o] = "nacked"
  /\ IF Exhausted
       THEN /\ order' = [order EXCEPT ![o].deliveryStatus = "FAILED"]
            /\ job' = Move(job, "webhook", o, "addRefund")
       ELSE /\ job' = Move(job, "webhook", o, "done")
            /\ UNCHANGED order
  /\ UNCHANGED <<chain, outside, referral, call, poll, cursor, faults>>

(* Mutant: an exhausted delivery is recorded, its refund is not enqueued.  *)
WebhookDropsRefund(o) ==
  /\ job["webhook"][o] = "addRefund"
  /\ job' = Move(job, "webhook", o, "done")
  /\ UNCHANGED <<chain, order, outside, referral, call, poll, cursor, faults>>

WebhookAddRefund(o) ==
  /\ job["webhook"][o] = "addRefund"
  /\ job' = Move(Add(job, "refund", o), "webhook", o, "done")
  /\ UNCHANGED <<chain, order, outside, referral, call, poll, cursor, faults>>

(***************************************************************************)
(* The refund worker: it consults no status of the order.                  *)
(***************************************************************************)

(* Mutant: the order is marked REFUNDED when the refund is sent.           *)
RefundSendMarks(o) ==
  /\ job["refund"][o] = "waiting"
  /\ outside' = [outside EXCEPT ![o].refund = @ + 1]
  /\ order' = [order EXCEPT ![o].paymentStatus = "REFUNDED"]
  /\ job' = Move(job, "refund", o, "record")
  /\ UNCHANGED <<chain, referral, call, poll, cursor, faults>>

RefundSend(o) ==
  /\ job["refund"][o] = "waiting"
  /\ outside' = [outside EXCEPT ![o].refund = @ + 1]
  /\ job' = Move(job, "refund", o, "record")
  /\ UNCHANGED <<chain, order, referral, call, poll, cursor, faults>>

RefundRecord(o) ==
  /\ job["refund"][o] = "record"
  /\ order' = [order EXCEPT ![o].paymentStatus = "REFUNDED", ![o].refundOut = @ + 1]
  /\ job' = Move(job, "refund", o, "done")
  /\ UNCHANGED <<chain, outside, referral, call, poll, cursor, faults>>

(* The processor of a job, at any of its steps, throws or dies.            *)
JobFails(q, o) ==
  /\ job[q][o] \notin {"none", "done"}
  /\ Fault
  /\ job' \in Broken(job, q, o)
  /\ UNCHANGED <<chain, order, outside, referral, call, poll, cursor>>

(* A queue keeps the keys of its ten latest finished jobs only.            *)
Evict(q, o) ==
  /\ job[q][o] = "done"
  /\ Fault
  /\ job' = Move(job, q, o, "none")
  /\ UNCHANGED <<chain, order, outside, referral, call, poll, cursor>>

--------------------------------------------------------------------------------
CallStep(c) ==
  \/ Verify(c) \/ Write(c) \/ CommitRefused(c) \/ Commit(c) \/ ReadMissing(c)
  \/ AddJob(c, "payout", {}) \/ AddJob(c, "webhook", {"payout"}) \/ AddReward(c)
  \/ FastPathRead(c) \/ FastPathPost(c) \/ FastPathRecord(c)

PollStep(p) ==
  \/ PollFetch(p, {}) \/ PollMatch(p) \/ PollAdvance(p) \/ PollDone(p)

PayoutStep(o) == PayoutStart(o) \/ PayoutSend(o) \/ PayoutRecord(o)

WebhookStep(o) ==
  \/ WebhookStart(o) \/ WebhookCreate(o) \/ WebhookPost(o) \/ WebhookDelivered(o)
  \/ WebhookNotDelivered(o) \/ WebhookAddRefund(o)

RefundStep(o) == RefundSend(o) \/ RefundRecord(o)

Failure ==
  \/ \E p \in Pollers : \/ PollFails(p)
                        \/ \E lost \in (SUBSET (1..MaxPayments)) \ {{}} :
                             PollFetch(p, lost)
  \/ \E c \in Callers : CallFails(c)
  \/ \E o \in Orders : \/ WebhookDeliveredFails(o)
                       \/ \E q \in {"payout", "webhook", "refund"} :
                            JobFails(q, o) \/ Evict(q, o)

Next ==
  \/ \E memo \in Memos, amount \in Amounts : Pay(memo, amount)
  \/ \E p \in Players : Bind(p)
  \/ \E c \in Requests, o \in Orders, t \in 1..MaxPayments : Submit(c, o, t)
  \/ \E c \in Callers : CallStep(c)
  \/ \E p \in Pollers : PollStep(p)
  \/ \E o \in Orders : PayoutStep(o) \/ WebhookStep(o) \/ RefundStep(o)
  \/ Failure

Spec == Init /\ [][Next]_vars

(***************************************************************************)
(* Started executions run on, poll jobs are enqueued every five seconds,   *)
(* and workers pick up the jobs of their queues.  Nothing obliges a buyer  *)
(* to pay or to submit, and no failure is ever due.                        *)
(***************************************************************************)
Fairness ==
  /\ \A c \in Callers : WF_vars(CallStep(c))
  /\ \A p \in Pollers : WF_vars(PollStep(p))
  /\ \A o \in Orders : /\ WF_vars(PayoutStep(o))
                       /\ WF_vars(WebhookStep(o))
                       /\ WF_vars(RefundStep(o))

FairSpec == Spec /\ Fairness

================================================================================
