--------------------------- MODULE SettlementProofs ----------------------------
(***************************************************************************)
(* Settlement keeps its types, an order that is settled is backed by a     *)
(* payment on chain of its own, and Settlement implements Sale, for every  *)
(* value of the constants.                                                 *)
(***************************************************************************)
EXTENDS SettlementCorrectness, SequenceTheorems, TLAPS

--------------------------------------------------------------------------------
(* Types                                                                   *)

(* The initial state is well typed.                                        *)
LEMMA InitType == Init => TypeOK
  <1> SUFFICES ASSUME Init PROVE TypeOK
    OBVIOUS
  <1> USE ConstantsAssumption DEF ConstantsAssumption, Init, NoTx
  <1>1. chain \in Seq(Payment(Memos, Amounts))
    OBVIOUS
  <1>2. order \in [Orders -> OrderRow] /\ outside \in [Orders -> Outside]
    BY DEF OrderRow, Outside
  <1>3. referral \in [Players -> Referral]
    BY DEF Referral
  <1>4. job \in Jobs
    BY DEF Jobs
  <1>5. /\ call \in [Callers -> Call]
        /\ \A c \in Callers : call[c].at # "idle" => call[c].order \in Orders
    BY DEF NoCall, Call
  <1>6. /\ poll \in [Pollers -> Poll]
        /\ \A p \in Pollers : poll[p].next \in 0..Len(chain)
    BY DEF NoPoll, Poll
  <1>7. cursor \in 0..Len(chain) /\ faults \in 0..MaxFaults
    OBVIOUS
  <1> HIDE DEF Init, ConstantsAssumption, NoTx
  <1> QED
    BY <1>1, <1>2, <1>3, <1>4, <1>5, <1>6, <1>7 DEF TypeOK

(* The conjuncts of TypeOK about calls and about poll jobs.                *)
CallsOK(k) == /\ k \in [Callers -> Call]
              /\ \A c \in Callers : k[c].at # "idle" => k[c].order \in Orders

PollsOK(w, len) == /\ w \in [Pollers -> Poll]
                   /\ \A p \in Pollers : w[p].next \in 0..len

(* What a call becomes when it returns, begins or goes on is a call again. *)
LEMMA ReturnType ==
  ASSUME CallsOK(call), NEW c \in Callers, Return(c)
  PROVE  CallsOK(call')
  BY DEF CallsOK, Return, NoCall, Call, NoTx

(* A call that begins verifyAndAdvanceOrder is a call.                     *)
LEMMA BeginType ==
  ASSUME CallsOK(call), NEW c \in Callers, NEW o \in Orders, NEW t \in Nat,
         Begin(c, o, t)
  PROVE  CallsOK(call')
  BY DEF CallsOK, Begin, NoCall, Call, NoTx

(* A call that goes on with its follow-ups, or returns, is a call.         *)
LEMMA ContinueType ==
  ASSUME CallsOK(call), NEW c \in Callers, call[c].at # "idle",
         NEW left \in SUBSET FollowUps, Continue(c, left)
  PROVE  CallsOK(call')
  <1>1. CASE left = {}
    BY <1>1, ReturnType DEF Continue
  <1>2. CASE left # {}
    BY <1>2 DEF CallsOK, Continue, Call
  <1> QED
    BY <1>1, <1>2

(* A call that goes on to another stage with something to do is a call.    *)
LEMMA GoesOnType ==
  ASSUME CallsOK(call), NEW c \in Callers, call[c].at # "idle",
         NEW at \in {"written", "settled"}, NEW todo \in SUBSET FollowUps,
         call' = [call EXCEPT ![c].at = at, ![c].todo = todo]
  PROVE  CallsOK(call')
  BY DEF CallsOK, Call

(* So is one that also forgets its hash.                                   *)
LEMMA CommittedType ==
  ASSUME CallsOK(call), NEW c \in Callers, call[c].at # "idle",
         NEW todo \in SUBSET FollowUps,
         call' = [call EXCEPT ![c] = [at |-> "settled", order |-> call[c].order,
                                      tx |-> NoTx, todo |-> todo]]
  PROVE  CallsOK(call')
  BY DEF CallsOK, Call, NoTx

(* A job moves between the stages of its own queue.                        *)
LEMMA MoveType ==
  ASSUME job \in Jobs, NEW o \in Orders, NEW q, NEW stage,
         \/ q = "payout" /\ stage \in {"none", "waiting", "send", "record", "done"}
         \/ q = "webhook" /\ stage \in {"none", "waiting", "create", "post", "acked",
                                        "nacked", "addRefund", "done"}
         \/ q = "refund" /\ stage \in {"none", "waiting", "record", "done"}
  PROVE  Move(job, q, o, stage) \in Jobs
  BY DEF Move, Jobs

(* The update of the fast path, which sets two fields.                     *)
LEMMA DeliveredRowType ==
  ASSUME NEW table \in [Orders -> OrderRow], NEW o \in Orders
  PROVE  [table EXCEPT ![o].deliveryStatus = "DELIVERED", ![o].delivery = TRUE]
           \in [Orders -> OrderRow]
  BY DEF OrderRow

(* Whatever the processes write about an order is a row of the table.      *)
LEMMA OrderRowType ==
  ASSUME order \in [Orders -> OrderRow], NEW o \in Orders, NEW t \in Nat,
         \/ order' = [order EXCEPT ![o].paymentStatus = "PAID",
                                   ![o].stellarTxHash = t, ![o].saleIn = @ + 1]
         \/ order' = [order EXCEPT ![o].delivery = TRUE]
         \/ order' = [order EXCEPT ![o].deliveryStatus = "DELIVERED",
                                   ![o].delivery = TRUE]
         \/ \E status \in {"DELIVERED", "FAILED"} :
              order' = [order EXCEPT ![o].deliveryStatus = status]
         \/ order' = [order EXCEPT ![o].payoutOut = @ + 1]
         \/ order' = [order EXCEPT ![o].paymentStatus = "REFUNDED",
                                   ![o].refundOut = @ + 1]
         \/ UNCHANGED order
  PROVE  order' \in [Orders -> OrderRow]
  <1>1. CASE order' = [order EXCEPT ![o].paymentStatus = "PAID",
                                    ![o].stellarTxHash = t, ![o].saleIn = @ + 1]
    BY <1>1 DEF OrderRow
  <1>2. CASE order' = [order EXCEPT ![o].delivery = TRUE]
    BY <1>2 DEF OrderRow
  <1>3. CASE order' = [order EXCEPT ![o].deliveryStatus = "DELIVERED",
                                    ![o].delivery = TRUE]
    BY <1>3, DeliveredRowType
  <1>4. ASSUME NEW status \in {"DELIVERED", "FAILED"},
               order' = [order EXCEPT ![o].deliveryStatus = status]
        PROVE  order' \in [Orders -> OrderRow]
    BY <1>4 DEF OrderRow
  <1>5. CASE order' = [order EXCEPT ![o].payoutOut = @ + 1]
    BY <1>5 DEF OrderRow
  <1>6. CASE order' = [order EXCEPT ![o].paymentStatus = "REFUNDED",
                                    ![o].refundOut = @ + 1]
    BY <1>6 DEF OrderRow
  <1> QED
    BY <1>1, <1>2, <1>3, <1>4, <1>5, <1>6

(* What the workers send outside keeps its type.                           *)
LEMMA OutsideType ==
  ASSUME outside \in [Orders -> Outside], NEW o \in Orders,
         \/ outside' = [outside EXCEPT ![o].payout = @ + 1]
         \/ outside' = [outside EXCEPT ![o].refund = @ + 1]
         \/ Grant(o)
         \/ UNCHANGED outside
  PROVE  outside' \in [Orders -> Outside]
  <1>1. CASE outside' = [outside EXCEPT ![o].payout = @ + 1]
    BY <1>1 DEF Outside
  <1>2. CASE outside' = [outside EXCEPT ![o].refund = @ + 1]
    BY <1>2 DEF Outside
  <1>3. CASE Grant(o)
    BY <1>3, ConstantsAssumption DEF Grant, Outside, ConstantsAssumption
  <1> QED
    BY <1>1, <1>2, <1>3

--------------------------------------------------------------------------------
(* A call leaves the chain and the poll jobs alone.                        *)
LEMMA CallStepFrame ==
  ASSUME NEW c \in Callers, CallStep(c)
  PROVE  UNCHANGED <<chain, poll, cursor, faults>>
  <1>1. CASE Commit(c) \/ Write(c)
    BY <1>1 DEF Commit, Write
  <1>2. CASE Verify(c) \/ CommitRefused(c) \/ ReadMissing(c) \/ AddReward(c)
    BY <1>2 DEF Verify, CommitRefused, ReadMissing, AddReward
  <1>3. ASSUME NEW q, NEW earlier, AddJob(c, q, earlier)
        PROVE  UNCHANGED <<chain, poll, cursor, faults>>
    BY <1>3 DEF AddJob
  <1>4. CASE FastPathRead(c) \/ FastPathPost(c) \/ FastPathRecord(c)
    BY <1>4 DEF FastPathRead, FastPathPost, FastPathRecord
  <1> QED
    BY <1>1, <1>2, <1>3, <1>4 DEF CallStep

(* A worker leaves the calls and the poll jobs alone.                      *)
LEMMA WorkerStepFrame ==
  ASSUME NEW o \in Orders, PayoutStep(o) \/ WebhookStep(o) \/ RefundStep(o)
  PROVE  UNCHANGED <<chain, referral, call, poll, cursor, faults>>
  BY DEF PayoutStep, PayoutStart, PayoutSend, PayoutRecord, WebhookStep,
         WebhookStart, WebhookCreate, WebhookPost, WebhookDelivered,
         WebhookNotDelivered, WebhookAddRefund, RefundStep, RefundSend, RefundRecord

(* The steps of an execution of verifyAndAdvanceOrder keep the types.      *)
LEMMA CallStepType ==
  ASSUME TypeOK, NEW c \in Callers, CallStep(c)
  PROVE  TypeOK'
  <1> USE DEF CallsOK
  <1>0. CallsOK(call)
    BY DEF TypeOK
  <1>1. CASE Verify(c)
    <2>1. CallsOK(call')
      BY <1>0, <1>1, ReturnType DEF Verify, Call
    <2> QED
      BY <1>1, <2>1 DEF TypeOK, Verify
  <1>2. CASE Commit(c)
    <2> DEFINE o == call[c].order
               todo == IF Qualifies(c) THEN {"reward"} ELSE {}
    <2>0. o \in Orders /\ call[c].tx \in Nat /\ todo \in SUBSET FollowUps
      BY <1>0, <1>2 DEF Commit, Call, FollowUps
    <2>1. CallsOK(call')
      <3>1. call' = [call EXCEPT ![c] = [at |-> "settled", order |-> call[c].order,
                                         tx |-> NoTx, todo |-> todo]]
        BY <1>2 DEF Commit
      <3> HIDE DEF todo
      <3> QED
        BY <1>0, <1>2, <2>0, <3>1, CommittedType DEF Commit
    <2>2. order' \in [Orders -> OrderRow]
      <3>1. order' = [order EXCEPT ![o].paymentStatus = "PAID",
                                   ![o].stellarTxHash = call[c].tx,
                                   ![o].saleIn = @ + 1]
        BY <1>2 DEF Commit
      <3> HIDE DEF o, todo
      <3> QED
        BY <2>0, <3>1, OrderRowType DEF TypeOK
    <2>3. referral' \in [Players -> Referral]
      BY <1>0, <1>2 DEF TypeOK, Commit, Referral
    <2> QED
      BY <1>2, <2>1, <2>2, <2>3 DEF TypeOK, Commit
  <1>3. CASE CommitRefused(c) \/ Write(c)
    <2>1. CASE CommitRefused(c)
      BY <1>0, <2>1, ReturnType DEF TypeOK, CommitRefused
    <2>2. CASE Write(c)
      <3> DEFINE todo == IF NoOtherPaid(call[c].order) THEN {"reward"} ELSE {}
      <3>1. call' = [call EXCEPT ![c].at = "written", ![c].todo = todo]
        BY <2>2 DEF Write
      <3>2. call[c].at = "verified" /\ todo \in SUBSET FollowUps
        BY <2>2 DEF Write, FollowUps
      <3> HIDE DEF todo
      <3>3. CallsOK(call')
        BY <1>0, <3>1, <3>2, GoesOnType
      <3> QED
        BY <2>2, <3>3 DEF TypeOK, Write
    <2> QED
      BY <1>3, <2>1, <2>2
  <1>4. CASE ReadMissing(c)
    <2>1. call[c].todo \cup Missing(call[c].order) \in SUBSET FollowUps
      BY <1>0 DEF Call, Missing, FollowUps
    <2>2. CallsOK(call')
      BY <1>0, <1>4, <2>1, ContinueType DEF ReadMissing
    <2> QED
      BY <1>4, <2>2 DEF TypeOK, ReadMissing
  <1>5. ASSUME NEW q \in {"payout", "webhook"}, NEW earlier, AddJob(c, q, earlier)
        PROVE  TypeOK'
    <2>1. CallsOK(call')
      BY <1>0, <1>5, ContinueType DEF AddJob, IsNext, Call
    <2>2. job' \in Jobs
      BY <1>0, <1>5, MoveType DEF TypeOK, AddJob, IsNext, Add, Jobs
    <2> QED
      BY <1>5, <2>1, <2>2 DEF TypeOK, AddJob
  <1>6. CASE AddReward(c)
    <2>1. CallsOK(call')
      BY <1>0, <1>6, ContinueType DEF AddReward, IsNext, Call
    <2>2. referral' \in [Players -> Referral]
      BY <1>6 DEF TypeOK, AddReward, Referral
    <2> QED
      BY <1>6, <2>1, <2>2 DEF TypeOK, AddReward
  <1>7. CASE FastPathRead(c)
    <2>1. CallsOK(call')
      BY <1>0, <1>7, ReturnType DEF FastPathRead, IsNext, Call
    <2> QED
      BY <1>7, <2>1 DEF TypeOK, FastPathRead
  <1>8. CASE FastPathPost(c)
    <2>1. CallsOK(call')
      BY <1>0, <1>8, ReturnType DEF FastPathPost, Call
    <2>2. outside' \in [Orders -> Outside]
      BY <1>0, <1>8, OutsideType DEF TypeOK, FastPathPost
    <2> QED
      BY <1>8, <2>1, <2>2 DEF TypeOK, FastPathPost
  <1>9. CASE FastPathRecord(c)
    <2>1. CallsOK(call')
      BY <1>0, <1>9, ReturnType DEF FastPathRecord
    <2>2. call[c].order \in Orders
      BY <1>0, <1>9 DEF FastPathRecord
    <2>3. order' \in [Orders -> OrderRow]
      BY <1>9, <2>2, OrderRowType DEF TypeOK, FastPathRecord
    <2> QED
      BY <1>9, <2>1, <2>3 DEF TypeOK, FastPathRecord
  <1> QED
    BY <1>1, <1>2, <1>3, <1>4, <1>5, <1>6, <1>7, <1>8, <1>9 DEF CallStep

(* The steps of a poll job keep the types.                                 *)
LEMMA PollStepType ==
  ASSUME TypeOK, NEW p \in Pollers,
         \/ PollStep(p) \/ PollFails(p) \/ \E lost : PollFetch(p, lost)
  PROVE  TypeOK'
  <1> USE DEF CallsOK
  <1>0. CallsOK(call) /\ p \in Callers
    BY DEF TypeOK, Callers
  <1>1. ASSUME NEW lost, PollFetch(p, lost) PROVE TypeOK'
    <2>0. Len(chain) \in Nat /\ cursor \in Nat
      BY LenProperties DEF TypeOK
    <2>1. /\ poll' \in [Pollers -> Poll]
          /\ \A w \in Pollers : poll'[w].next \in 0..Len(chain')
      <3> DEFINE seen == (cursor + 1 .. Len(chain)) \ lost
      <3>1. seen \in SUBSET Nat /\ chain' = chain
        BY <1>1, <2>0 DEF PollFetch
      <3>2. poll' = [poll EXCEPT ![p] = [at |-> "fetched", seen |-> seen,
                                         next |-> PageEnd, todo |-> {}]]
        BY <1>1 DEF PollFetch
      <3> HIDE DEF seen
      <3>3. PageEnd \in Nat /\ PageEnd \in 0..Len(chain)
        BY <2>0 DEF PageEnd
      <3> QED
        BY <2>0, <3>1, <3>2, <3>3 DEF TypeOK, Poll
    <2>2. faults' \in 0..MaxFaults
      <3>1. faults' = faults \/ Fault
        BY <1>1 DEF PollFetch
      <3> QED
        BY <3>1, ConstantsAssumption DEF TypeOK, Fault, ConstantsAssumption
    <2> QED
      BY <1>1, <2>1, <2>2 DEF TypeOK, PollFetch
  <1>2. CASE PollMatch(p)
    <2>1. PICK owners \in SUBSET Pending :
            poll' = [poll EXCEPT ![p].at = "advancing",
                                 ![p].todo = Matched(owners, poll[p].seen)]
      BY <1>2 DEF PollMatch
    <2>2. Matched(owners, poll[p].seen) \in SUBSET (Orders \X Nat)
      BY DEF TypeOK, Matched, Pending, Poll
    <2>3. /\ poll' \in [Pollers -> Poll]
          /\ \A w \in Pollers : poll'[w].next \in 0..Len(chain)
      BY <2>1, <2>2 DEF TypeOK, Poll
    <2> QED
      BY <1>2, <2>3 DEF TypeOK, PollMatch
  <1>3. CASE PollAdvance(p)
    <2>1. PICK m \in poll[p].todo :
            Begin(p, m[1], m[2]) /\ poll' = [poll EXCEPT ![p].todo = @ \ {m}]
      BY <1>3 DEF PollAdvance
    <2>2. m[1] \in Orders /\ m[2] \in Nat
      BY DEF TypeOK, Poll
    <2>3. CallsOK(call')
      BY <1>0, <2>1, <2>2, BeginType
    <2>4. /\ poll' \in [Pollers -> Poll]
          /\ \A w \in Pollers : poll'[w].next \in 0..Len(chain)
      BY <2>1 DEF TypeOK, Poll
    <2> QED
      BY <1>3, <2>3, <2>4 DEF TypeOK, PollAdvance
  <1>4. CASE PollDone(p)
    BY <1>4 DEF TypeOK, PollDone, NewCursor, Poll, NoPoll
  <1>5. CASE PollFails(p)
    <2>1. CallsOK(call')
      BY <1>0, <1>5, ReturnType DEF PollFails
    <2>2. /\ poll' \in [Pollers -> Poll]
          /\ \A w \in Pollers : poll'[w].next \in 0..Len(chain)
      BY <1>5 DEF TypeOK, PollFails, Poll, NoPoll
    <2>3. faults' \in 0..MaxFaults
      BY <1>5, ConstantsAssumption DEF TypeOK, PollFails, Fault, ConstantsAssumption
    <2> QED
      BY <1>5, <2>1, <2>2, <2>3 DEF TypeOK, PollFails
  <1> QED
    BY <1>1, <1>2, <1>3, <1>4, <1>5 DEF PollStep

(* The steps of the workers that execute jobs keep the types.              *)
LEMMA WorkerStepType ==
  ASSUME TypeOK, NEW o \in Orders, PayoutStep(o) \/ WebhookStep(o) \/ RefundStep(o)
  PROVE  TypeOK'
  <1>1. job' \in Jobs
    <2> USE DEF TypeOK
    <2>1. CASE PayoutStep(o)
      BY <2>1, MoveType DEF PayoutStep, PayoutStart, PayoutSend, PayoutRecord
    <2>2. CASE WebhookStep(o)
      <3>1. CASE WebhookAddRefund(o)
        <4>1. Add(job, "refund", o) \in Jobs
          BY MoveType DEF Add, Jobs
        <4>2. Move(Add(job, "refund", o), "webhook", o, "done") \in Jobs
          BY <4>1 DEF Move, Jobs
        <4> QED
          BY <3>1, <4>2 DEF WebhookAddRefund
      <3>2. CASE ~WebhookAddRefund(o)
        BY <2>2, <3>2, MoveType
           DEF WebhookStep, WebhookStart, WebhookCreate, WebhookPost,
               WebhookDelivered, WebhookNotDelivered
      <3> QED
        BY <3>1, <3>2
    <2>3. CASE RefundStep(o)
      BY <2>3, MoveType DEF RefundStep, RefundSend, RefundRecord
    <2> QED
      BY <2>1, <2>2, <2>3
  <1>2. order' \in [Orders -> OrderRow]
    BY OrderRowType, 0 \in Nat
       DEF TypeOK, PayoutStep, PayoutStart, PayoutSend, PayoutRecord, WebhookStep,
           WebhookStart, WebhookCreate, WebhookPost, WebhookDelivered,
           WebhookNotDelivered, WebhookAddRefund, RefundStep, RefundSend,
           RefundRecord
  <1>3. outside' \in [Orders -> Outside]
    BY OutsideType
       DEF TypeOK, PayoutStep, PayoutStart, PayoutSend, PayoutRecord, WebhookStep,
           WebhookStart, WebhookCreate, WebhookPost, WebhookDelivered,
           WebhookNotDelivered, WebhookAddRefund, RefundStep, RefundSend,
           RefundRecord
  <1>4. UNCHANGED <<chain, referral, call, poll, cursor, faults>>
    BY WorkerStepFrame
  <1> QED
    BY <1>1, <1>2, <1>3, <1>4 DEF TypeOK

(* Failures keep the types.                                                *)
LEMMA FailureType ==
  ASSUME TypeOK, Failure
  PROVE  TypeOK'
  <1> USE DEF CallsOK
  <1>0. ASSUME Fault PROVE faults' \in 0..MaxFaults
    BY <1>0, ConstantsAssumption DEF TypeOK, Fault, ConstantsAssumption
  <1>1. ASSUME NEW p \in Pollers, PollFails(p) \/ \E lost : PollFetch(p, lost)
        PROVE  TypeOK'
    BY <1>1, PollStepType
  <1>2. ASSUME NEW c \in Callers, CallFails(c) PROVE TypeOK'
    <2>1. CallsOK(call')
      BY <1>2, ReturnType DEF TypeOK, CallFails
    <2> QED
      BY <1>0, <1>2, <2>1 DEF TypeOK, CallFails
  <1>3. ASSUME NEW o \in Orders, WebhookDeliveredFails(o) PROVE TypeOK'
    <2>1. job' \in Jobs
      BY <1>3, MoveType DEF TypeOK, WebhookDeliveredFails
    <2> QED
      BY <1>0, <1>3, <2>1 DEF TypeOK, WebhookDeliveredFails
  <1>4. ASSUME NEW o \in Orders, NEW q \in {"payout", "webhook", "refund"},
               JobFails(q, o)
        PROVE  TypeOK'
    <2>1. job' \in Jobs
      BY <1>4, MoveType DEF TypeOK, JobFails, Broken
    <2> QED
      BY <1>0, <1>4, <2>1 DEF TypeOK, JobFails
  <1>5. ASSUME NEW o \in Orders, NEW q \in {"payout", "webhook", "refund"},
               Evict(q, o)
        PROVE  TypeOK'
    <2>1. job' \in Jobs
      BY <1>5, MoveType DEF TypeOK, Evict
    <2> QED
      BY <1>0, <1>5, <2>1 DEF TypeOK, Evict
  <1> QED
    BY <1>1, <1>2, <1>3, <1>4, <1>5 DEF Failure

(* Every step keeps the types.                                             *)
LEMMA NextType == TypeOK /\ [Next]_vars => TypeOK'
  <1> SUFFICES ASSUME TypeOK, [Next]_vars PROVE TypeOK'
    OBVIOUS
  <1> USE DEF CallsOK
  <1>1. ASSUME NEW memo \in Memos, NEW amount \in Amounts, Pay(memo, amount)
        PROVE  TypeOK'
    <2>1. [memo |-> memo, amount |-> amount] \in Payment(Memos, Amounts)
      BY DEF Payment
    <2>2. chain' \in Seq(Payment(Memos, Amounts)) /\ Len(chain') = Len(chain) + 1
      BY <1>1, <2>1, AppendProperties DEF TypeOK, Pay
    <2>3. Len(chain) \in Nat
      BY LenProperties DEF TypeOK
    <2> QED
      BY <1>1, <2>2, <2>3 DEF TypeOK, Pay
  <1>2. ASSUME NEW p \in Players, Bind(p) PROVE TypeOK'
    <2>1. referral' \in [Players -> Referral]
      BY <1>2 DEF TypeOK, Bind, Referral
    <2> QED
      BY <1>2, <2>1 DEF TypeOK, Bind
  <1>3. ASSUME NEW c \in Requests, NEW o \in Orders, NEW t \in 1..MaxPayments,
               Submit(c, o, t)
        PROVE  TypeOK'
    <2>1. t \in Nat /\ c \in Callers
      BY ConstantsAssumption DEF ConstantsAssumption, Callers
    <2>2. CallsOK(call')
      BY <1>3, <2>1, BeginType DEF TypeOK, Submit
    <2> QED
      BY <1>3, <2>2 DEF TypeOK, Submit
  <1>4. CASE UNCHANGED vars
    BY <1>4 DEF TypeOK, vars
  <1> QED
    BY <1>1, <1>2, <1>3, <1>4, CallStepType, PollStepType, WorkerStepType,
       FailureType DEF Next

(* Settlement.tla as a whole is well typed: no process ever writes a value *)
(* outside the types of its tables, and the cursor of the watcher stays    *)
(* within the payments received.                                           *)
THEOREM TypeCorrect == Spec => []TypeOK
  <1>1. Init => TypeOK
    BY InitType
  <1>2. TypeOK /\ [Next]_vars => TypeOK'
    BY NextType
  <1> QED
    BY <1>1, <1>2, PTL DEF Spec

--------------------------------------------------------------------------------
(* Settled orders are backed                                               *)

(* A step of somebody who works for the settled order o.                   *)
SettledStep(o) ==
  /\ order[o].stellarTxHash # NoTx
  /\ UNCHANGED chain
  /\ \A w \in Orders :
       /\ order'[w].stellarTxHash = order[w].stellarTxHash
       /\ w # o => /\ order'[w] = order[w] /\ outside'[w] = outside[w]
                   /\ \A q \in {"payout", "webhook", "refund"} :
                        job'[q][w] = job[q][w]
  /\ job'["refund"][o] = "record" => outside'[o].refund > 0

(* A step in which a call returns, goes on after the commit or rests.      *)
CallsKept ==
  \A c \in Callers :
    \/ call'[c] = call[c]
    \/ call'[c].at = "idle"
    \/ /\ call[c].at \in {"settled", "follow", "post", "record"}
       /\ call'[c].at \notin {"verified", "written"}
       /\ call'[c].order = call[c].order

(* Work for a settled order leaves every order backed and every job        *)
(* settled.                                                                *)
LEMMA SettledStepKeeps ==
  ASSUME BackedInv, NEW o \in Orders, SettledStep(o)
  PROVE  JobsAreSettled' /\ SettledIsBacked'
  <1>1. JobsAreSettled'
    BY DEF BackedInv, JobsAreSettled, SettledStep, NoTx
  <1>2. \A t, w : Covers(t, w)' <=> Covers(t, w)
    BY DEF SettledStep, Covers
  <1>3. SettledIsBacked'
    BY <1>2 DEF BackedInv, SettledIsBacked, SettledStep, Untouched, NoTx
  <1> QED
    BY <1>1, <1>3

(* Calls keep what they know while hashes and payments stay.               *)
LEMMA CallsKeptKeeps ==
  ASSUME BackedInv, CallsKept, UNCHANGED chain,
         \A w \in Orders : order'[w].stellarTxHash = order[w].stellarTxHash
  PROVE  VerifiedIsCovered' /\ WrittenIsFree' /\ CallsAreSettled'
  <1>1. \A c \in Callers : call[c].at # "idle" => call[c].order \in Orders
    BY DEF BackedInv, TypeOK
  <1>2. \A t, w : Covers(t, w)' <=> Covers(t, w)
    BY DEF Covers
  <1>3. VerifiedIsCovered'
    BY <1>2 DEF BackedInv, VerifiedIsCovered, CallsKept
  <1>4. CallsAreSettled'
    BY <1>1 DEF BackedInv, CallsAreSettled, CallsKept, NoTx
  <1>5. \A t, w : HeldByAnother(t, w)' <=> HeldByAnother(t, w)
    BY DEF HeldByAnother
  <1>6. WrittenIsFree'
    BY <1>5 DEF BackedInv, WrittenIsFree, CallsKept
  <1> QED
    BY <1>3, <1>4, <1>6

--------------------------------------------------------------------------------
(* Initially nothing has been paid, settled or begun.                      *)
LEMMA InitBacked == Init => BackedInv
  <1> SUFFICES ASSUME Init PROVE BackedInv
    OBVIOUS
  <1>1. TypeOK
    BY InitType
  <1>2. VerifiedIsCovered /\ WrittenIsFree /\ CallsAreSettled
    BY DEF Init, NoCall, VerifiedIsCovered, WrittenIsFree, CallsAreSettled
  <1>3. JobsAreSettled
    BY DEF Init, JobsAreSettled
  <1>4. SettledIsBacked
    BY DEF Init, SettledIsBacked, Untouched
  <1> QED
    BY <1>1, <1>2, <1>3, <1>4 DEF BackedInv

(* A payment more on chain: what was covered stays covered.                *)
LEMMA PayBacked ==
  ASSUME BackedInv, TypeOK', NEW memo \in Memos, NEW amount \in Amounts,
         Pay(memo, amount)
  PROVE  BackedInv'
  <1>1. \A t \in 1..Len(chain) : t \in 1..Len(chain') /\ chain'[t] = chain[t]
    <2>1. chain \in Seq(Payment(Memos, Amounts)) /\ Len(chain) \in Nat
      BY LenProperties DEF BackedInv, TypeOK
    <2>2. [memo |-> memo, amount |-> amount] \in Payment(Memos, Amounts)
      BY DEF Payment
    <2> QED
      BY <2>1, <2>2, AppendProperties DEF Pay
  <1>2. \A t, o : Covers(t, o) => Covers(t, o)'
    BY <1>1 DEF Covers
  <1>3. UNCHANGED <<order, outside, job, call>>
    BY DEF Pay
  <1>4. VerifiedIsCovered' /\ CallsAreSettled' /\ JobsAreSettled'
    BY <1>2, <1>3 DEF BackedInv, VerifiedIsCovered, CallsAreSettled, JobsAreSettled,
                      NoTx
  <1>5. SettledIsBacked'
    BY <1>2, <1>3 DEF BackedInv, SettledIsBacked, Untouched, NoTx
  <1>6. WrittenIsFree'
    BY <1>3 DEF BackedInv, WrittenIsFree, HeldByAnother
  <1> QED
    BY <1>4, <1>5, <1>6 DEF BackedInv

(* Only the calls change.                                                  *)
LEMMA CallOnlyBacked ==
  ASSUME BackedInv, TypeOK', UNCHANGED <<chain, order, outside, job>>,
         VerifiedIsCovered', WrittenIsFree', CallsAreSettled'
  PROVE  BackedInv'
  <1>1. JobsAreSettled'
    BY DEF BackedInv, JobsAreSettled, NoTx
  <1>2. SettledIsBacked'
    BY DEF BackedInv, SettledIsBacked, Untouched, Covers, NoTx
  <1> QED
    BY <1>1, <1>2 DEF BackedInv

(* A call begins: one that finds its order PAID finds it settled.          *)
LEMMA BeginBacked ==
  ASSUME BackedInv, TypeOK', NEW c \in Callers, NEW o \in Orders, NEW t \in Nat,
         Begin(c, o, t), UNCHANGED <<chain, order, outside, job>>
  PROVE  BackedInv'
  <1>1. call \in [Callers -> Call]
    BY DEF BackedInv, TypeOK
  <1>2. order[o].paymentStatus = "PAID" => order[o].stellarTxHash # NoTx
    BY DEF BackedInv, SettledIsBacked, Untouched
  <1>3. VerifiedIsCovered'
    BY <1>1 DEF BackedInv, VerifiedIsCovered, Covers, Begin, NoCall
  <1>4. CallsAreSettled'
    BY <1>1, <1>2 DEF BackedInv, CallsAreSettled, Begin, NoCall, NoTx
  <1>5. WrittenIsFree'
    BY <1>1 DEF BackedInv, WrittenIsFree, HeldByAnother, Begin, NoCall
  <1> QED
    BY <1>3, <1>4, <1>5, CallOnlyBacked

(* A call ends, goes on after the commit, or stays, and nobody writes.     *)
LEMMA KeptBacked ==
  ASSUME BackedInv, TypeOK', CallsKept, UNCHANGED <<chain, order, outside, job>>
  PROVE  BackedInv'
  BY CallsKeptKeeps, CallOnlyBacked

(* Somebody works for a settled order.                                     *)
LEMMA SettledStepBacked ==
  ASSUME BackedInv, TypeOK', NEW o \in Orders, SettledStep(o), CallsKept
  PROVE  BackedInv'
  <1>1. VerifiedIsCovered' /\ WrittenIsFree' /\ CallsAreSettled'
    BY CallsKeptKeeps DEF SettledStep
  <1> QED
    BY <1>1, SettledStepKeeps DEF BackedInv

(* A call verifies: it goes on only with a payment that covers its order.  *)
LEMMA VerifyBacked ==
  ASSUME BackedInv, TypeOK', NEW c \in Callers, Verify(c)
  PROVE  BackedInv'
  <1>1. call \in [Callers -> Call] /\ UNCHANGED <<chain, order, outside, job>>
    BY DEF BackedInv, TypeOK, Verify
  <1>2. CASE Return(c)
    BY <1>1, <1>2, KeptBacked DEF Return, NoCall, CallsKept
  <1>3. CASE /\ Confirms(call[c].tx, call[c].order)
             /\ call' = [call EXCEPT ![c].at = "verified"]
    <2>1. Covers(call[c].tx, call[c].order)
      BY <1>3 DEF Confirms, VerifyPayment, Covers
    <2>2. /\ call'[c].tx = call[c].tx /\ call'[c].order = call[c].order
          /\ call'[c].at = "verified"
          /\ \A d \in Callers \ {c} : call'[d] = call[d]
      BY <1>1, <1>3 DEF Call
    <2>3. VerifiedIsCovered'
      BY <1>1, <2>1, <2>2 DEF BackedInv, VerifiedIsCovered, Covers
    <2>4. CallsAreSettled'
      BY <1>1, <2>2 DEF BackedInv, CallsAreSettled, NoTx
    <2>5. WrittenIsFree'
      BY <1>1, <2>2 DEF BackedInv, WrittenIsFree, HeldByAnother
    <2> QED
      BY <1>1, <2>3, <2>4, <2>5, CallOnlyBacked
  <1> QED
    BY <1>2, <1>3 DEF Verify

(* A call opens its transaction's writes: it waits until nobody else holds *)
(* its hash or its order.                                                  *)
LEMMA WriteBacked ==
  ASSUME BackedInv, TypeOK', NEW c \in Callers, Write(c)
  PROVE  BackedInv'
  <1>1. call \in [Callers -> Call] /\ UNCHANGED <<chain, order, outside, job>>
    BY DEF BackedInv, TypeOK, Write
  <1>2. /\ call'[c].tx = call[c].tx /\ call'[c].order = call[c].order
        /\ call[c].at = "verified" /\ call'[c].at = "written"
        /\ \A d \in Callers \ {c} : call'[d] = call[d]
    BY <1>1 DEF Write, Call
  <1>3. VerifiedIsCovered'
    BY <1>1, <1>2 DEF BackedInv, VerifiedIsCovered, Covers
  <1>4. CallsAreSettled'
    BY <1>1, <1>2 DEF BackedInv, CallsAreSettled, NoTx
  <1>5. ~HeldByAnother(call[c].tx, call[c].order) /\ ~Locked(c)
    BY DEF Write, TxHashFree
  <1>6. WrittenIsFree'
    BY <1>1, <1>2, <1>5 DEF BackedInv, WrittenIsFree, HeldByAnother, Locked
  <1> QED
    BY <1>1, <1>3, <1>4, <1>6, CallOnlyBacked

(* A call commits: the order it settles has the payment it has verified.   *)
LEMMA CommitBacked ==
  ASSUME BackedInv, TypeOK', NEW c \in Callers, Commit(c)
  PROVE  BackedInv'
  <1> DEFINE o == call[c].order
             t == call[c].tx
  <1>1. /\ o \in Orders
        /\ Covers(t, o) /\ t # NoTx
        /\ call \in [Callers -> Call] /\ order \in [Orders -> OrderRow]
    <2>1. Covers(t, o)
      BY DEF BackedInv, Commit, VerifiedIsCovered
    <2> QED
      BY <2>1 DEF BackedInv, TypeOK, Commit, Covers, NoTx
  <1>2. /\ UNCHANGED <<chain, outside, job>>
        /\ order' = [order EXCEPT ![o].paymentStatus = "PAID",
                                  ![o].stellarTxHash = t, ![o].saleIn = @ + 1]
        /\ call' = [call EXCEPT ![c] =
                      [at |-> "settled", order |-> o, tx |-> NoTx,
                       todo |-> IF Qualifies(c) THEN {"reward"} ELSE {}]]
    BY DEF Commit
  <1>3. /\ order'[o].stellarTxHash = t
        /\ \A w \in Orders \ {o} : order'[w] = order[w]
    BY <1>1, <1>2 DEF OrderRow
  <1>4. /\ call'[c].at = "settled" /\ call'[c].order = o
        /\ \A d \in Callers \ {c} : call'[d] = call[d]
    BY <1>1, <1>2 DEF Call
  <1>5. \A s, w : Covers(s, w)' <=> Covers(s, w)
    BY <1>2 DEF Covers
  <1> HIDE DEF o, t
  <1>6. VerifiedIsCovered'
    BY <1>4, <1>5 DEF BackedInv, VerifiedIsCovered
  <1>7. CallsAreSettled'
    BY <1>1, <1>3, <1>4 DEF BackedInv, TypeOK, CallsAreSettled, NoTx
  <1>8. JobsAreSettled'
    BY <1>1, <1>2, <1>3 DEF BackedInv, JobsAreSettled, NoTx
  <1>9. SettledIsBacked'
    BY <1>1, <1>2, <1>3, <1>5 DEF BackedInv, SettledIsBacked, Untouched, NoTx
  <1>10. WrittenIsFree'
    <2>1. call[c].at = "written"
      BY DEF Commit
    <2> QED
      BY <1>3, <1>4, <2>1 DEF BackedInv, WrittenIsFree, HeldByAnother, o, t
  <1> QED
    BY <1>6, <1>7, <1>8, <1>9, <1>10 DEF BackedInv

(* A call that returns or goes on after the commit is kept.                *)
LEMMA GoesOnKept ==
  ASSUME call \in [Callers -> Call], NEW c \in Callers,
         \/ Return(c)
         \/ /\ call[c].at \in {"settled", "follow", "post"}
            /\ \/ \E left : Continue(c, left)
               \/ call' = [call EXCEPT ![c].at = "post", ![c].todo = {}]
               \/ call' = [call EXCEPT ![c].at = "record"]
  PROVE  CallsKept
  <1>1. CASE Return(c)
    BY <1>1 DEF CallsKept, Return, NoCall
  <1>2. CASE /\ call[c].at \in {"settled", "follow", "post"}
             /\ \/ \E left : call' = [call EXCEPT ![c].at = "follow", ![c].todo = left]
                \/ call' = [call EXCEPT ![c].at = "post", ![c].todo = {}]
                \/ call' = [call EXCEPT ![c].at = "record"]
    BY <1>2 DEF CallsKept, Call
  <1> QED
    BY <1>1, <1>2 DEF Continue

(* A job moves between its stages; all others stay as they are.            *)
LEMMA MoveKeeps ==
  ASSUME job \in Jobs, NEW o \in Orders, NEW q \in {"payout", "webhook", "refund"},
         NEW stage
  PROVE  /\ Move(job, q, o, stage)[q][o] = stage
         /\ \A r \in {"payout", "webhook", "refund"}, w \in Orders :
              r # q \/ w # o => Move(job, q, o, stage)[r][w] = job[r][w]
  BY DEF Move, Jobs

(* A job is added only where its queue knows none.                         *)
LEMMA AddKeeps ==
  ASSUME job \in Jobs, NEW o \in Orders, NEW q \in {"payout", "webhook", "refund"}
  PROVE  /\ Add(job, q, o)[q][o] = IF job[q][o] = "none" THEN "waiting" ELSE job[q][o]
         /\ \A r \in {"payout", "webhook", "refund"}, w \in Orders :
              r # q \/ w # o => Add(job, q, o)[r][w] = job[r][w]
  <1>1. PICK stage : stage = IF job[q][o] = "none" THEN "waiting" ELSE job[q][o]
    OBVIOUS
  <1>2. Add(job, q, o) = Move(job, q, o, stage)
    BY <1>1 DEF Add
  <1> QED
    BY <1>1, <1>2, MoveKeeps

(* A job that only moves, and not to the record stage of a refund.         *)
LEMMA JobMovesSettled ==
  ASSUME BackedInv, NEW o \in Orders, NEW q \in {"payout", "webhook", "refund"},
         NEW stage, q = "refund" => stage # "record",
         order[o].stellarTxHash # NoTx,
         job' = Move(job, q, o, stage), UNCHANGED <<chain, order, outside>>
  PROVE  SettledStep(o)
  <1>1. /\ job'[q][o] = stage
        /\ \A r \in {"payout", "webhook", "refund"}, w \in Orders :
             r # q \/ w # o => job'[r][w] = job[r][w]
    BY MoveKeeps DEF BackedInv, TypeOK
  <1> QED
    BY <1>1 DEF BackedInv, JobsAreSettled, SettledStep

--------------------------------------------------------------------------------
(* The other steps of a call.                                              *)
LEMMA CallStepBacked ==
  ASSUME BackedInv, TypeOK', NEW c \in Callers, CallStep(c)
  PROVE  BackedInv'
  <1>0. /\ call \in [Callers -> Call] /\ order \in [Orders -> OrderRow]
        /\ outside \in [Orders -> Outside] /\ job \in Jobs
        /\ call[c].at # "idle" => call[c].order \in Orders
        /\ call[c].at \in {"settled", "follow", "post", "record"}
             => order[call[c].order].stellarTxHash # NoTx
    BY DEF BackedInv, TypeOK, CallsAreSettled
  <1>1. CASE CommitRefused(c)
    BY <1>0, <1>1, GoesOnKept, KeptBacked DEF CommitRefused
  <1>2. CASE ReadMissing(c)
    BY <1>0, <1>2, GoesOnKept, KeptBacked DEF ReadMissing
  <1>3. ASSUME NEW q \in {"payout", "webhook"}, NEW earlier, AddJob(c, q, earlier)
        PROVE  BackedInv'
    <2>1. /\ call[c].order \in Orders
          /\ order[call[c].order].stellarTxHash # NoTx
          /\ UNCHANGED <<chain, order, outside>>
      BY <1>0, <1>3 DEF AddJob, IsNext
    <2>2. SettledStep(call[c].order)
      BY <1>3, <2>1, JobMovesSettled DEF AddJob, Add
    <2>3. CallsKept
      BY <1>0, <1>3, GoesOnKept DEF AddJob, IsNext
    <2> QED
      BY <2>1, <2>2, <2>3, SettledStepBacked
  <1>4. CASE AddReward(c)
    BY <1>0, <1>4, GoesOnKept, KeptBacked DEF AddReward, IsNext
  <1>5. CASE FastPathRead(c)
    BY <1>0, <1>5, GoesOnKept, KeptBacked DEF FastPathRead, IsNext
  <1>6. CASE FastPathPost(c)
    <2>1. CallsKept
      BY <1>0, <1>6, GoesOnKept DEF FastPathPost
    <2>2. SettledStep(call[c].order)
      BY <1>0, <1>6 DEF FastPathPost, Grant, Outside, SettledStep, BackedInv,
                        JobsAreSettled
    <2> QED
      BY <1>0, <1>6, <2>1, <2>2, SettledStepBacked DEF FastPathPost
  <1>7. CASE FastPathRecord(c)
    <2>1. CallsKept
      BY <1>0, <1>7, GoesOnKept DEF FastPathRecord
    <2>2. SettledStep(call[c].order)
      BY <1>0, <1>7 DEF FastPathRecord, OrderRow, SettledStep, BackedInv,
                        JobsAreSettled
    <2> QED
      BY <1>0, <1>7, <2>1, <2>2, SettledStepBacked DEF FastPathRecord
  <1> QED
    BY <1>1, <1>2, <1>3, <1>4, <1>5, <1>6, <1>7, VerifyBacked, WriteBacked,
       CommitBacked
       DEF CallStep

(* Every step of a job is work for a settled order.                        *)
LEMMA JobStepSettled ==
  ASSUME BackedInv, NEW o \in Orders,
         \/ PayoutStep(o) \/ WebhookStep(o) \/ RefundStep(o)
         \/ WebhookDeliveredFails(o)
         \/ \E q \in {"payout", "webhook", "refund"} : JobFails(q, o) \/ Evict(q, o)
  PROVE  SettledStep(o) /\ UNCHANGED call
  <1>0. /\ order \in [Orders -> OrderRow] /\ outside \in [Orders -> Outside]
        /\ job \in Jobs
        /\ \A q \in {"payout", "webhook", "refund"} :
             job[q][o] # "none" => order[o].stellarTxHash # NoTx
        /\ job["refund"][o] = "record" => outside[o].refund > 0
    BY DEF BackedInv, TypeOK, JobsAreSettled
  <1>1. CASE PayoutStep(o)
    <2>1. CASE PayoutStart(o)
      BY <1>0, <2>1, JobMovesSettled DEF PayoutStart
    <2>2. CASE PayoutSend(o)
      BY <1>0, <2>2, MoveKeeps DEF PayoutSend, Outside, SettledStep
    <2>3. CASE PayoutRecord(o)
      BY <1>0, <2>3, MoveKeeps DEF PayoutRecord, OrderRow, SettledStep
    <2> QED
      BY <1>1, <2>1, <2>2, <2>3
         DEF PayoutStep, PayoutStart, PayoutSend, PayoutRecord
  <1>2. CASE WebhookStep(o)
    <2>1. CASE WebhookStart(o)
      BY <1>0, <2>1, JobMovesSettled DEF WebhookStart
    <2>2. CASE WebhookCreate(o)
      BY <1>0, <2>2, MoveKeeps DEF WebhookCreate, OrderRow, SettledStep
    <2>3. CASE WebhookPost(o)
      BY <1>0, <2>3, MoveKeeps DEF WebhookPost, Grant, Outside, SettledStep
    <2>4. CASE WebhookDelivered(o)
      BY <1>0, <2>4, MoveKeeps DEF WebhookDelivered, OrderRow, SettledStep
    <2>5. CASE WebhookNotDelivered(o)
      BY <1>0, <2>5, MoveKeeps DEF WebhookNotDelivered, OrderRow, SettledStep
    <2>6. CASE WebhookAddRefund(o)
      <3> DEFINE added == Add(job, "refund", o)
      <3>1. /\ added \in Jobs
            /\ added["refund"][o] = IF job["refund"][o] = "none"
                                      THEN "waiting" ELSE job["refund"][o]
            /\ \A q \in {"payout", "webhook", "refund"}, w \in Orders :
                 w # o => added[q][w] = job[q][w]
        BY <1>0, MoveKeeps, MoveType DEF Add, Jobs
      <3>2. /\ job'["refund"][o] = added["refund"][o]
            /\ \A q \in {"payout", "webhook", "refund"}, w \in Orders :
                 w # o => job'[q][w] = added[q][w]
        BY <2>6, <3>1 DEF WebhookAddRefund, Move, Jobs
      <3> HIDE DEF added
      <3> QED
        BY <1>0, <2>6, <3>1, <3>2 DEF WebhookAddRefund, SettledStep
    <2> QED
      BY <1>2, <2>1, <2>2, <2>3, <2>4, <2>5, <2>6
         DEF WebhookStep, WebhookStart, WebhookCreate, WebhookPost,
             WebhookDelivered, WebhookNotDelivered, WebhookAddRefund
  <1>3. CASE RefundStep(o)
    <2>1. CASE RefundSend(o)
      BY <1>0, <2>1, MoveKeeps DEF RefundSend, Outside, SettledStep
    <2>2. CASE RefundRecord(o)
      BY <1>0, <2>2, MoveKeeps DEF RefundRecord, OrderRow, SettledStep
    <2> QED
      BY <1>3, <2>1, <2>2 DEF RefundStep, RefundSend, RefundRecord
  <1>4. CASE WebhookDeliveredFails(o)
    BY <1>0, <1>4, JobMovesSettled DEF WebhookDeliveredFails
  <1>5. ASSUME NEW q \in {"payout", "webhook", "refund"},
               JobFails(q, o) \/ Evict(q, o)
        PROVE  SettledStep(o) /\ UNCHANGED call
    BY <1>0, <1>5, JobMovesSettled DEF JobFails, Broken, Evict
  <1> QED
    BY <1>1, <1>2, <1>3, <1>4, <1>5

--------------------------------------------------------------------------------
(* The steps of a poll job.                                                *)
LEMMA PollStepBacked ==
  ASSUME BackedInv, TypeOK', NEW p \in Pollers,
         \/ PollStep(p) \/ PollFails(p) \/ \E lost : PollFetch(p, lost)
  PROVE  BackedInv'
  <1>0. call \in [Callers -> Call] /\ p \in Callers
    BY DEF BackedInv, TypeOK, Callers
  <1>1. CASE PollAdvance(p)
    <2>1. PICK m \in poll[p].todo : Begin(p, m[1], m[2])
      BY <1>1 DEF PollAdvance
    <2>2. m[1] \in Orders /\ m[2] \in Nat
      BY DEF BackedInv, TypeOK, Poll
    <2>3. UNCHANGED <<chain, order, outside, job>>
      BY <1>1 DEF PollAdvance
    <2> QED
      BY <1>0, <2>1, <2>2, <2>3, BeginBacked
  <1>2. CASE PollFails(p)
    BY <1>0, <1>2, GoesOnKept, KeptBacked DEF PollFails
  <1>3. CASE PollMatch(p) \/ PollDone(p) \/ \E lost : PollFetch(p, lost)
    BY <1>3, KeptBacked DEF PollMatch, PollDone, PollFetch, CallsKept
  <1> QED
    BY <1>1, <1>2, <1>3 DEF PollStep

(* Every step keeps every order backed.                                    *)
LEMMA NextBacked == BackedInv /\ [Next]_vars => BackedInv'
  <1> SUFFICES ASSUME BackedInv, [Next]_vars PROVE BackedInv'
    OBVIOUS
  <1>0. TypeOK'
    BY NextType DEF BackedInv
  <1>1. ASSUME NEW memo \in Memos, NEW amount \in Amounts, Pay(memo, amount)
        PROVE  BackedInv'
    BY <1>0, <1>1, PayBacked
  <1>2. ASSUME NEW p \in Players, Bind(p) PROVE BackedInv'
    BY <1>0, <1>2, KeptBacked DEF Bind, CallsKept
  <1>3. ASSUME NEW c \in Requests, NEW o \in Orders, NEW t \in 1..MaxPayments,
               Submit(c, o, t)
        PROVE  BackedInv'
    <2>1. t \in Nat /\ c \in Callers
      BY ConstantsAssumption DEF ConstantsAssumption, Callers
    <2> QED
      BY <1>0, <1>3, <2>1, BeginBacked DEF Submit
  <1>4. ASSUME NEW o \in Orders,
               \/ PayoutStep(o) \/ WebhookStep(o) \/ RefundStep(o)
               \/ WebhookDeliveredFails(o)
               \/ \E q \in {"payout", "webhook", "refund"} :
                    JobFails(q, o) \/ Evict(q, o)
        PROVE  BackedInv'
    <2>1. SettledStep(o) /\ UNCHANGED call
      BY <1>4, JobStepSettled
    <2> QED
      BY <1>0, <2>1, SettledStepBacked DEF CallsKept
  <1>5. ASSUME NEW c \in Callers, CallFails(c) PROVE BackedInv'
    <2>1. CallsKept
      BY <1>5, GoesOnKept DEF CallFails, BackedInv, TypeOK
    <2> QED
      BY <1>0, <1>5, <2>1, KeptBacked DEF CallFails
  <1>6. CASE UNCHANGED vars
    BY <1>0, <1>6, KeptBacked DEF vars, CallsKept
  <1> QED
    BY <1>0, <1>1, <1>2, <1>3, <1>4, <1>5, <1>6, CallStepBacked, PollStepBacked
       DEF Next, Failure

(* Whatever the number of orders, calls, workers and failures: an order    *)
(* that is settled, paid out, delivered or refunded is backed by a payment *)
(* on chain that carries its memo and covers its amount.                   *)
THEOREM BackedCorrect == Spec => []SettledIsBacked
  <1>1. Init => BackedInv
    BY InitBacked
  <1>2. BackedInv /\ [Next]_vars => BackedInv'
    BY NextBacked
  <1>3. BackedInv => SettledIsBacked
    BY DEF BackedInv
  <1> QED
    BY <1>1, <1>2, <1>3, PTL DEF Spec

--------------------------------------------------------------------------------
(* Only a commit writes a hash, and the unique index lets it write none    *)
(* that another order holds.                                               *)
LEMMA HashesChangeAtCommit ==
  ASSUME BackedInv, [Next]_vars
  PROVE  \/ \A o \in Orders : order'[o].stellarTxHash = order[o].stellarTxHash
         \/ \E o \in Orders, t \in Nat :
              /\ ~HeldByAnother(t, o)
              /\ order'[o].stellarTxHash = t
              /\ \A w \in Orders \ {o} : order'[w] = order[w]
  <1>1. ASSUME NEW c \in Callers, Commit(c)
        PROVE  \E o \in Orders, t \in Nat :
                 /\ ~HeldByAnother(t, o)
                 /\ order'[o].stellarTxHash = t
                 /\ \A w \in Orders \ {o} : order'[w] = order[w]
    <2> DEFINE o == call[c].order
               t == call[c].tx
    <2>1. o \in Orders /\ t \in Nat /\ order \in [Orders -> OrderRow]
      BY <1>1 DEF BackedInv, TypeOK, Commit, Call
    <2>2. /\ ~HeldByAnother(t, o)
          /\ order' = [order EXCEPT ![o].paymentStatus = "PAID",
                                    ![o].stellarTxHash = t, ![o].saleIn = @ + 1]
      BY <1>1 DEF Commit, BackedInv, WrittenIsFree
    <2> HIDE DEF o, t
    <2>3. /\ order'[o].stellarTxHash = t
          /\ \A w \in Orders \ {o} : order'[w] = order[w]
      BY <2>1, <2>2 DEF OrderRow
    <2> QED
      BY <2>1, <2>2, <2>3
  <1>2. ASSUME NEW c \in Callers, CallStep(c), ~Commit(c)
        PROVE  \A o \in Orders : order'[o].stellarTxHash = order[o].stellarTxHash
    <2>1. CASE FastPathRecord(c)
      BY <2>1 DEF FastPathRecord, BackedInv, TypeOK, OrderRow
    <2> QED
      BY <1>2, <2>1 DEF CallStep, Verify, Write, CommitRefused, ReadMissing, AddJob,
                        AddReward, FastPathRead, FastPathPost
  <1>3. ASSUME NEW o \in Orders,
               \/ PayoutStep(o) \/ WebhookStep(o) \/ RefundStep(o)
               \/ WebhookDeliveredFails(o)
               \/ \E q \in {"payout", "webhook", "refund"} :
                    JobFails(q, o) \/ Evict(q, o)
        PROVE  \A w \in Orders : order'[w].stellarTxHash = order[w].stellarTxHash
    BY <1>3, JobStepSettled DEF SettledStep
  <1>4. ASSUME NEW p \in Pollers,
               \/ PollStep(p) \/ PollFails(p) \/ \E lost : PollFetch(p, lost)
        PROVE  UNCHANGED order
    BY <1>4 DEF PollStep, PollFails, PollFetch, PollMatch, PollAdvance, PollDone
  <1> QED
    BY <1>1, <1>2, <1>3, <1>4 DEF Next, Failure, Pay, Bind, Submit, CallFails, vars

(* No payment settles two orders, however many calls race and however the  *)
(* memos of the orders collide: the guard reads, the index decides.        *)
THEOREM OnePaymentCorrect == Spec => []OnePaymentOneOrder
  <1>1. Init => OnePaymentOneOrder
    BY DEF Init, OnePaymentOneOrder
  <1>2. ASSUME OnePaymentOneOrder, BackedInv, [Next]_vars PROVE OnePaymentOneOrder'
    <2>1. CASE \A o \in Orders : order'[o].stellarTxHash = order[o].stellarTxHash
      BY <1>2, <2>1 DEF OnePaymentOneOrder, NoTx
    <2>2. ASSUME NEW o \in Orders, NEW t \in Nat, ~HeldByAnother(t, o),
                 order'[o].stellarTxHash = t,
                 \A w \in Orders \ {o} : order'[w] = order[w]
          PROVE  OnePaymentOneOrder'
      BY <1>2, <2>2 DEF OnePaymentOneOrder, HeldByAnother, NoTx
    <2> QED
      BY <1>2, <2>1, <2>2, HashesChangeAtCommit
  <1> QED
    BY <1>1, <1>2, InitBacked, NextBacked, PTL DEF Spec

--------------------------------------------------------------------------------
(* Refinement: the five processes, with all their stale reads and          *)
(* failures, release nothing for an order that was not settled by a        *)
(* payment of its own.                                                     *)

(* What Sale sees of the orders.                                           *)
status == [o \in Orders |-> order[o].paymentStatus]
hash == [o \in Orders |-> order[o].stellarTxHash]

(* Sale sees nothing of a step that leaves these alone.                    *)
Invisible ==
  /\ UNCHANGED <<chain, outside>>
  /\ \A o \in Orders : /\ order'[o].paymentStatus = order[o].paymentStatus
                       /\ order'[o].stellarTxHash = order[o].stellarTxHash

(* A step that changes nothing Sale can see stutters.                      *)
LEMMA InvisibleStutters ==
  ASSUME Invisible
  PROVE  UNCHANGED S!saleVars
  BY DEF Invisible, S!saleVars, released

(* The initial state is one of Sale.                                       *)
LEMMA InitRefines == Init => S!Init
  BY DEF Init, S!Init, released, NoTx, S!NoTx

(* A payment more is received.                                             *)
LEMMA PayReceives ==
  ASSUME NEW memo \in Memos, NEW amount \in Amounts, Pay(memo, amount)
  PROVE  S!Next
  <1>1. S!Receive(memo, amount)
    BY DEF Pay, S!Receive, released
  <1> QED
    BY <1>1 DEF S!Next

(* A commit settles the order with the payment it has verified.            *)
LEMMA CommitSettles ==
  ASSUME BackedInv, NEW c \in Callers, Commit(c)
  PROVE  S!Next
  <1>0. Covers(call[c].tx, call[c].order) /\ call[c].order \in Orders
    BY DEF BackedInv, TypeOK, VerifiedIsCovered, Commit
  <1>1. PICK o \in Orders, t \in 1..Len(chain) : o = call[c].order /\ t = call[c].tx
    BY <1>0 DEF Covers
  <1>2. /\ ~HeldByAnother(t, o) /\ UNCHANGED <<chain, outside>>
        /\ order' = [order EXCEPT ![o].paymentStatus = "PAID",
                                  ![o].stellarTxHash = t, ![o].saleIn = @ + 1]
    BY <1>1 DEF Commit, BackedInv, WrittenIsFree
  <1>3. /\ order'[o].paymentStatus = "PAID" /\ order'[o].stellarTxHash = t
        /\ \A w \in Orders \ {o} : order'[w] = order[w]
    BY <1>1, <1>2 DEF OrderRow, BackedInv, TypeOK
  <1>4. status' = [status EXCEPT ![o] = "PAID"] /\ hash' = [hash EXCEPT ![o] = t]
    BY <1>3 DEF status, hash
  <1>5. /\ chain[t].memo = Memo[o] /\ chain[t].amount >= Due[o]
        /\ \A other \in Orders \ {o} : hash[other] # t
    BY <1>0, <1>1, <1>2 DEF Covers, HeldByAnother, hash
  <1>6. UNCHANGED <<chain, released>>
    BY <1>2 DEF released
  <1>7. S!Settle(o, t)
    BY <1>4, <1>5, <1>6 DEF S!Settle, status, hash
  <1> QED
    BY <1>1, <1>7 DEF S!Next

(* What is released for one order, when that for all others stays.         *)
LEMMA AddsToReleased ==
  ASSUME NEW o \in Orders, NEW kind,
         \A w \in Orders \ {o} : outside'[w] = outside[w],
         released'[o] = released[o] \cup {kind}
  PROVE  released' = [released EXCEPT ![o] = @ \cup {kind}]
  <1>1. \A w \in Orders \ {o} : released'[w] = released[w]
    BY DEF released
  <1>2. DOMAIN released = Orders /\ released' = [w \in Orders |-> released'[w]]
    BY DEF released
  <1> QED
    BY <1>1, <1>2

(* A payout, a grant or a refund releases value of a settled order.        *)
LEMMA SendReleases ==
  ASSUME BackedInv, NEW o \in Orders, order[o].stellarTxHash # NoTx,
         UNCHANGED <<chain, order>>,
         \/ outside' = [outside EXCEPT ![o].payout = @ + 1]
         \/ outside' = [outside EXCEPT ![o].refund = @ + 1]
         \/ Grant(o)
  PROVE  S!Next
  <1>0. /\ outside[o] \in Outside /\ outside \in [Orders -> Outside]
        /\ MaxGrants \in Nat \ {0}
    BY ConstantsAssumption DEF BackedInv, TypeOK, ConstantsAssumption
  <1>1. \A w \in Orders \ {o} : outside'[w] = outside[w]
    BY <1>0 DEF Grant
  <1>2. PICK kind \in {"payout", "refund", "item"} :
          released'[o] = released[o] \cup {kind}
    <2>1. CASE outside' = [outside EXCEPT ![o].payout = @ + 1]
      <3>1. /\ outside'[o].payout > 0
            /\ outside'[o].refund = outside[o].refund
            /\ outside'[o].item = outside[o].item
        BY <1>0, <2>1 DEF Outside
      <3> QED
        BY <3>1 DEF released
    <2>2. CASE outside' = [outside EXCEPT ![o].refund = @ + 1]
      <3>1. /\ outside'[o].refund > 0
            /\ outside'[o].payout = outside[o].payout
            /\ outside'[o].item = outside[o].item
        BY <1>0, <2>2 DEF Outside
      <3> QED
        BY <3>1 DEF released
    <2>3. CASE Grant(o)
      <3>1. /\ outside'[o].item > 0
            /\ outside'[o].payout = outside[o].payout
            /\ outside'[o].refund = outside[o].refund
        BY <1>0, <2>3 DEF Outside, Grant
      <3> QED
        BY <3>1 DEF released
    <2> QED
      BY <2>1, <2>2, <2>3
  <1>3. released' = [released EXCEPT ![o] = @ \cup {kind}]
    BY <1>1, <1>2, AddsToReleased
  <1>4. S!Release(o, kind)
    BY <1>3 DEF S!Release, NoTx, S!NoTx
  <1> QED
    BY <1>2, <1>4 DEF S!Next, S!Kinds

(* A recorded refund was sent.                                             *)
LEMMA RecordRefunds ==
  ASSUME BackedInv, NEW o \in Orders, RefundRecord(o)
  PROVE  S!Next
  <1>1. "refund" \in released[o]
    BY DEF BackedInv, JobsAreSettled, RefundRecord, released
  <1>2. /\ order'[o].paymentStatus = "REFUNDED"
        /\ order'[o].stellarTxHash = order[o].stellarTxHash
        /\ \A w \in Orders \ {o} : order'[w] = order[w]
    BY DEF BackedInv, TypeOK, RefundRecord, OrderRow
  <1>3. UNCHANGED <<chain, released>>
    BY DEF RefundRecord, released
  <1>4. S!Refund(o)
    BY <1>1, <1>2, <1>3 DEF S!Refund
  <1> QED
    BY <1>4 DEF S!Next

--------------------------------------------------------------------------------
(* A step of a call is a settlement, a release, or invisible.              *)
LEMMA CallStepRefines ==
  ASSUME BackedInv, NEW c \in Callers, CallStep(c)
  PROVE  S!Next \/ Invisible
  <1>0. /\ order \in [Orders -> OrderRow]
        /\ call[c].at # "idle" => call[c].order \in Orders
        /\ call[c].at \in {"settled", "follow", "post", "record"}
             => order[call[c].order].stellarTxHash # NoTx
    BY DEF BackedInv, TypeOK, CallsAreSettled
  <1>1. CASE Commit(c)
    BY <1>1, CommitSettles
  <1>2. CASE FastPathPost(c)
    <2>1. CASE Grant(call[c].order)
      BY <1>0, <1>2, <2>1, SendReleases DEF FastPathPost
    <2>2. CASE UNCHANGED outside
      BY <1>2, <2>2 DEF FastPathPost, Invisible
    <2> QED
      BY <1>2, <2>1, <2>2 DEF FastPathPost
  <1>3. CASE FastPathRecord(c)
    BY <1>0, <1>3 DEF FastPathRecord, OrderRow, Invisible
  <1> QED
    BY <1>1, <1>2, <1>3
       DEF CallStep, Verify, Write, CommitRefused, ReadMissing, AddJob, AddReward,
           FastPathRead, Invisible

(* So is a step of a worker, which may also be a refund.                   *)
LEMMA WorkerStepRefines ==
  ASSUME BackedInv, NEW o \in Orders, PayoutStep(o) \/ WebhookStep(o) \/ RefundStep(o)
  PROVE  S!Next \/ Invisible
  <1>0. /\ order \in [Orders -> OrderRow]
        /\ \A q \in {"payout", "webhook", "refund"} :
             job[q][o] # "none" => order[o].stellarTxHash # NoTx
    BY DEF BackedInv, TypeOK, JobsAreSettled
  <1>1. CASE PayoutSend(o)
    BY <1>0, <1>1, SendReleases DEF PayoutSend
  <1>2. CASE RefundSend(o)
    BY <1>0, <1>2, SendReleases DEF RefundSend
  <1>3. CASE WebhookPost(o)
    <2>1. CASE Grant(o)
      BY <1>0, <1>3, <2>1, SendReleases DEF WebhookPost
    <2>2. CASE UNCHANGED outside
      BY <1>3, <2>2 DEF WebhookPost, Invisible
    <2> QED
      BY <1>3, <2>1, <2>2 DEF WebhookPost
  <1>4. CASE RefundRecord(o)
    BY <1>4, RecordRefunds
  <1>5. CASE PayoutRecord(o)
    BY <1>0, <1>5 DEF PayoutRecord, OrderRow, Invisible
  <1>6. CASE WebhookCreate(o)
    BY <1>0, <1>6 DEF WebhookCreate, OrderRow, Invisible
  <1>7. CASE WebhookDelivered(o)
    BY <1>0, <1>7 DEF WebhookDelivered, OrderRow, Invisible
  <1>8. CASE WebhookNotDelivered(o)
    BY <1>0, <1>8 DEF WebhookNotDelivered, OrderRow, Invisible
  <1> QED
    BY <1>1, <1>2, <1>3, <1>4, <1>5, <1>6, <1>7, <1>8
       DEF PayoutStep, PayoutStart, WebhookStep, WebhookStart, WebhookAddRefund,
           RefundStep, Invisible

(* Every step maps to a step of Sale or to a stutter.                      *)
LEMMA NextRefines ==
  ASSUME BackedInv, [Next]_vars
  PROVE  [S!Next]_(S!saleVars)
  <1>1. S!Next \/ Invisible
    <2>1. ASSUME NEW memo \in Memos, NEW amount \in Amounts, Pay(memo, amount)
          PROVE  S!Next
      BY <2>1, PayReceives
    <2>2. CASE \/ \E p \in Players : Bind(p)
               \/ \E c \in Requests, o \in Orders, t \in 1..MaxPayments :
                    Submit(c, o, t)
               \/ \E p \in Pollers : PollStep(p)
               \/ Failure
               \/ UNCHANGED vars
      BY <2>2 DEF Bind, Submit, PollStep, PollFetch, PollMatch, PollAdvance, PollDone,
                  Failure, PollFails, CallFails, WebhookDeliveredFails, JobFails,
                  Evict, vars, Invisible
    <2> QED
      BY <2>1, <2>2, CallStepRefines, WorkerStepRefines DEF Next
  <1> QED
    BY <1>1, InvisibleStutters

(* Settlement implements Sale: an order is settled only by a payment of    *)
(* its own, and a payout, an item or a refund leaves the platform only for *)
(* a settled order.                                                        *)
THEOREM RefinementCorrect == Spec => RefinesSale
  <1>1. Init => S!Init
    BY InitRefines
  <1>2. BackedInv /\ [Next]_vars => [S!Next]_(S!saleVars)
    BY NextRefines
  <1> QED
    BY <1>1, <1>2, InitBacked, NextBacked, PTL DEF Spec, RefinesSale, S!Spec

--------------------------------------------------------------------------------
(* What leaves the platform                                                *)

(* A step of somebody who works for no other order than o, and for o keeps *)
(* the transfers and the delivery ahead of what is recorded of them.       *)
EffectsStep(o) ==
  /\ \A w \in Orders \ {o} :
       /\ order'[w] = order[w] /\ outside'[w] = outside[w]
       /\ \A q \in {"payout", "webhook", "refund"} : job'[q][w] = job[q][w]
  /\ outside[o].item > 0 => outside'[o].item > 0
  /\ TransfersPrecede(o)' /\ DeliveryPrecedes(o)'

(* An order for which nothing is done keeps its effects.                   *)
LEMMA EffectsOfOthers ==
  ASSUME NEW w \in Orders, TransfersPrecede(w), DeliveryPrecedes(w),
         order'[w] = order[w], outside'[w] = outside[w],
         \A q \in {"payout", "webhook", "refund"} : job'[q][w] = job[q][w]
  PROVE  TransfersPrecede(w)' /\ DeliveryPrecedes(w)'
  BY DEF TransfersPrecede, DeliveryPrecedes, Owed

(* A call that is about to record a delivery had, or has now, its grant.   *)
LEMMA EffectsStepKeeps ==
  ASSUME EffectsInv, TypeOK', NEW o \in Orders, EffectsStep(o),
         \A c \in Callers :
           call'[c].at = "record"
             => /\ call'[c].order \in Orders
                /\ \/ call[c].at = "record" /\ call[c].order = call'[c].order
                   \/ outside'[call'[c].order].item > 0
  PROVE  EffectsInv'
  <1>1. \A w \in Orders : TransfersPrecede(w)' /\ DeliveryPrecedes(w)'
    BY EffectsOfOthers DEF EffectsInv, EffectsStep
  <1>2. \A w \in Orders : outside[w].item > 0 => outside'[w].item > 0
    BY DEF EffectsStep
  <1>3. GrantPrecedes'
    BY <1>2 DEF EffectsInv, GrantPrecedes
  <1> QED
    BY <1>1, <1>3 DEF EffectsInv

(* Nor does a call that does none of this and records nothing.             *)
LEMMA EffectsUnmoved ==
  ASSUME EffectsInv, TypeOK', UNCHANGED <<order, outside, job>>, NEW c \in Callers,
         call'[c].at # "record", \A d \in Callers \ {c} : call'[d] = call[d]
  PROVE  EffectsInv'
  <1>1. \A o \in Orders : TransfersPrecede(o)' /\ DeliveryPrecedes(o)'
    BY EffectsOfOthers DEF EffectsInv
  <1>2. GrantPrecedes'
    BY DEF EffectsInv, GrantPrecedes
  <1> QED
    BY <1>1, <1>2 DEF EffectsInv

(* A step of a payout job: it records only what it has sent.               *)
LEMMA PayoutEffects ==
  ASSUME EffectsInv, NEW o \in Orders, PayoutStep(o)
  PROVE  /\ TransfersPrecede(o)' /\ DeliveryPrecedes(o)'
         /\ outside'[o].item = outside[o].item
  <1>0. /\ order[o] \in OrderRow /\ outside[o] \in Outside /\ job \in Jobs
        /\ order \in [Orders -> OrderRow] /\ outside \in [Orders -> Outside]
        /\ TransfersPrecede(o) /\ DeliveryPrecedes(o)
    BY DEF EffectsInv, TypeOK
  <1>1. PICK stage : job' = Move(job, "payout", o, stage)
    BY DEF PayoutStep, PayoutStart, PayoutSend, PayoutRecord
  <1>2. /\ job'["payout"][o] = stage
        /\ job'["webhook"][o] = job["webhook"][o]
        /\ job'["refund"][o] = job["refund"][o]
    BY <1>0, <1>1, MoveKeeps
  <1>3. /\ order'[o].deliveryStatus = order[o].deliveryStatus
        /\ order'[o].delivery = order[o].delivery
        /\ outside'[o].item = outside[o].item
        /\ outside'[o].refund = outside[o].refund
    BY <1>0 DEF PayoutStep, PayoutStart, PayoutSend, PayoutRecord, OrderRow, Outside
  <1>4. TransfersPrecede(o)'
    <2>1. CASE PayoutStart(o)
      <3>1. job'["payout"][o] # "record" /\ job["payout"][o] = "waiting"
            /\ UNCHANGED <<order, outside>>
        BY <1>0, <2>1, MoveKeeps DEF PayoutStart
      <3> QED
        BY <1>0, <1>2, <3>1 DEF TransfersPrecede, Owed
    <2>2. CASE PayoutSend(o)
      <3>1. /\ job'["payout"][o] = "record" /\ job["payout"][o] = "send"
            /\ outside'[o].payout = outside[o].payout + 1
            /\ outside'[o].refund = outside[o].refund
            /\ UNCHANGED order
        BY <1>0, <2>2, MoveKeeps DEF PayoutSend, Outside
      <3> QED
        BY <1>0, <1>2, <3>1 DEF TransfersPrecede, Owed, Outside, OrderRow
    <2>3. CASE PayoutRecord(o)
      <3>1. /\ job'["payout"][o] = "done" /\ job["payout"][o] = "record"
            /\ order'[o].payoutOut = order[o].payoutOut + 1
            /\ order'[o].refundOut = order[o].refundOut
            /\ order'[o].paymentStatus = order[o].paymentStatus
            /\ UNCHANGED outside
        BY <1>0, <2>3, MoveKeeps DEF PayoutRecord, OrderRow
      <3> QED
        BY <1>0, <1>2, <3>1 DEF TransfersPrecede, Owed, Outside, OrderRow
    <2> QED
      BY <2>1, <2>2, <2>3 DEF PayoutStep
  <1>5. DeliveryPrecedes(o)'
    BY <1>0, <1>2, <1>3 DEF DeliveryPrecedes
  <1> QED
    BY <1>3, <1>4, <1>5

(* A step of a refund job, of an order whose delivery has been attempted.  *)
LEMMA RefundEffects ==
  ASSUME EffectsInv, NEW o \in Orders, RefundStep(o)
  PROVE  /\ TransfersPrecede(o)' /\ DeliveryPrecedes(o)'
         /\ outside'[o].item = outside[o].item
  <1>0. /\ order[o] \in OrderRow /\ outside[o] \in Outside /\ job \in Jobs
        /\ order \in [Orders -> OrderRow] /\ outside \in [Orders -> Outside]
        /\ TransfersPrecede(o) /\ DeliveryPrecedes(o)
    BY DEF EffectsInv, TypeOK
  <1>1. CASE RefundSend(o)
    <2>1. /\ job'["refund"][o] = "record" /\ job["refund"][o] = "waiting"
          /\ job'["payout"][o] = job["payout"][o]
          /\ job'["webhook"][o] = job["webhook"][o]
          /\ UNCHANGED order
      BY <1>0, <1>1, MoveKeeps DEF RefundSend
    <2>2. /\ outside'[o].refund = outside[o].refund + 1
          /\ outside'[o].payout = outside[o].payout
          /\ outside'[o].item = outside[o].item
      BY <1>0, <1>1 DEF RefundSend, Outside
    <2>3. TransfersPrecede(o)'
      BY <1>0, <2>1, <2>2 DEF TransfersPrecede, Owed, Outside, OrderRow
    <2>4. DeliveryPrecedes(o)'
      BY <1>0, <2>1, <2>2 DEF DeliveryPrecedes
    <2> QED
      BY <2>1, <2>2, <2>3, <2>4
  <1>2. CASE RefundRecord(o)
    <2>1. /\ job'["refund"][o] = "done" /\ job["refund"][o] = "record"
          /\ job'["payout"][o] = job["payout"][o]
          /\ job'["webhook"][o] = job["webhook"][o]
          /\ UNCHANGED outside
      BY <1>0, <1>2, MoveKeeps DEF RefundRecord
    <2>2. /\ order'[o].refundOut = order[o].refundOut + 1
          /\ order'[o].payoutOut = order[o].payoutOut
          /\ order'[o].deliveryStatus = order[o].deliveryStatus
          /\ order'[o].delivery = order[o].delivery
      BY <1>0, <1>2 DEF RefundRecord, OrderRow
    <2>3. TransfersPrecede(o)'
      BY <1>0, <2>1, <2>2 DEF TransfersPrecede, Owed, Outside, OrderRow
    <2>4. DeliveryPrecedes(o)'
      BY <1>0, <2>1, <2>2 DEF DeliveryPrecedes
    <2> QED
      BY <2>1, <2>2, <2>3, <2>4
  <1> QED
    BY <1>1, <1>2 DEF RefundStep

(* A step of a webhook job: it reads an answer of the game before it       *)
(* records a delivery, and has created its delivery row before it fails.   *)
LEMMA WebhookEffects ==
  ASSUME EffectsInv, NEW o \in Orders, WebhookStep(o) \/ WebhookDeliveredFails(o)
  PROVE  /\ TransfersPrecede(o)' /\ DeliveryPrecedes(o)'
         /\ outside[o].item > 0 => outside'[o].item > 0
  <1>0. /\ order[o] \in OrderRow /\ outside[o] \in Outside /\ job \in Jobs
        /\ order \in [Orders -> OrderRow] /\ outside \in [Orders -> Outside]
        /\ TransfersPrecede(o) /\ DeliveryPrecedes(o)
        /\ MaxGrants \in Nat \ {0}
    BY ConstantsAssumption DEF EffectsInv, TypeOK, ConstantsAssumption
  <1>1. CASE WebhookAddRefund(o)
    <2> DEFINE added == Add(job, "refund", o)
    <2>1. /\ added \in Jobs
          /\ added["refund"][o] = IF job["refund"][o] = "none"
                                    THEN "waiting" ELSE job["refund"][o]
          /\ added["payout"][o] = job["payout"][o]
      BY <1>0, MoveKeeps, MoveType DEF Add, Jobs
    <2>2. /\ job'["refund"][o] = added["refund"][o]
          /\ job'["payout"][o] = added["payout"][o]
          /\ job'["webhook"][o] = "done"
      BY <1>1, <2>1 DEF WebhookAddRefund, Move, Jobs
    <2>3. job["webhook"][o] = "addRefund" /\ UNCHANGED <<order, outside>>
      BY <1>1 DEF WebhookAddRefund
    <2> HIDE DEF added
    <2>4. TransfersPrecede(o)'
      BY <1>0, <2>1, <2>2, <2>3 DEF TransfersPrecede, Owed
    <2>5. DeliveryPrecedes(o)'
      BY <1>0, <2>1, <2>2, <2>3 DEF DeliveryPrecedes
    <2> QED
      BY <2>3, <2>4, <2>5
  <1>2. ASSUME ~WebhookAddRefund(o)
        PROVE  /\ TransfersPrecede(o)' /\ DeliveryPrecedes(o)'
               /\ outside[o].item > 0 => outside'[o].item > 0
    <2>1. PICK stage : job' = Move(job, "webhook", o, stage)
      BY <1>2 DEF WebhookStep, WebhookStart, WebhookCreate, WebhookPost,
                  WebhookDelivered, WebhookNotDelivered, WebhookDeliveredFails
    <2>2. /\ job'["webhook"][o] = stage
          /\ job'["payout"][o] = job["payout"][o]
          /\ job'["refund"][o] = job["refund"][o]
      BY <1>0, <2>1, MoveKeeps
    <2>3. /\ order'[o].paymentStatus = order[o].paymentStatus
          /\ order'[o].payoutOut = order[o].payoutOut
          /\ order'[o].refundOut = order[o].refundOut
          /\ order[o].delivery => order'[o].delivery
          /\ outside'[o].payout = outside[o].payout
          /\ outside'[o].refund = outside[o].refund
          /\ outside[o].item > 0 => outside'[o].item > 0
      <3>1. CASE UNCHANGED <<order, outside>>
        BY <3>1
      <3>2. CASE UNCHANGED order /\ Grant(o)
        BY <1>0, <3>2 DEF Grant, Outside
      <3>3. CASE UNCHANGED outside /\ order' = [order EXCEPT ![o].delivery = TRUE]
        BY <1>0, <3>3 DEF OrderRow
      <3>4. CASE /\ UNCHANGED outside
                 /\ \E d \in {"DELIVERED", "FAILED"} :
                      order' = [order EXCEPT ![o].deliveryStatus = d]
        BY <1>0, <3>4 DEF OrderRow
      <3> QED
        BY <1>2, <3>1, <3>2, <3>3, <3>4
           DEF WebhookStep, WebhookStart, WebhookCreate, WebhookPost,
               WebhookDelivered, WebhookNotDelivered, WebhookDeliveredFails
    <2>4. TransfersPrecede(o)'
      BY <1>0, <2>2, <2>3 DEF TransfersPrecede, Owed
    <2>5. /\ stage = "acked" => outside'[o].item > 0
          /\ order'[o].deliveryStatus = "DELIVERED" => outside'[o].item > 0
          /\ stage \in {"post", "acked", "nacked", "addRefund"} => order'[o].delivery
      <3>1. CASE WebhookStart(o)
        BY <1>0, <2>2, <3>1, MoveKeeps DEF WebhookStart, DeliveryPrecedes
      <3>2. CASE WebhookCreate(o)
        BY <1>0, <2>2, <3>2, MoveKeeps DEF WebhookCreate, DeliveryPrecedes, OrderRow
      <3>3. CASE WebhookPost(o)
        BY <1>0, <2>2, <3>3, MoveKeeps DEF WebhookPost, Grant, DeliveryPrecedes, Outside
      <3>4. CASE WebhookDelivered(o)
        BY <1>0, <2>2, <3>4, MoveKeeps
           DEF WebhookDelivered, DeliveryPrecedes, OrderRow
      <3>5. CASE WebhookNotDelivered(o)
        BY <1>0, <2>2, <3>5, MoveKeeps
           DEF WebhookNotDelivered, DeliveryPrecedes, OrderRow
      <3>6. CASE WebhookDeliveredFails(o)
        BY <1>0, <2>2, <3>6, MoveKeeps DEF WebhookDeliveredFails, DeliveryPrecedes
      <3> QED
        BY <1>2, <3>1, <3>2, <3>3, <3>4, <3>5, <3>6 DEF WebhookStep
    <2>6. DeliveryPrecedes(o)'
      BY <1>0, <2>2, <2>3, <2>5 DEF DeliveryPrecedes
    <2> QED
      BY <2>3, <2>4, <2>6
  <1> QED
    BY <1>1, <1>2

(* A failure of a job, or of a queue that forgets one, repeats or drops    *)
(* steps but records nothing.                                              *)
LEMMA JobFailsEffects ==
  ASSUME EffectsInv, NEW o \in Orders, NEW q \in {"payout", "webhook", "refund"},
         JobFails(q, o) \/ Evict(q, o)
  PROVE  TransfersPrecede(o)' /\ DeliveryPrecedes(o)' /\ UNCHANGED outside
  <1>0. /\ order[o] \in OrderRow /\ outside[o] \in Outside /\ job \in Jobs
        /\ TransfersPrecede(o) /\ DeliveryPrecedes(o)
    BY DEF EffectsInv, TypeOK
  <1>1. PICK stage \in {"none", "waiting", "done"} :
          job' = Move(job, q, o, stage) /\ job[q][o] # "none"
    BY DEF JobFails, Broken, Evict
  <1>2. UNCHANGED <<order, outside>>
    BY DEF JobFails, Evict
  <1>3. /\ job'[q][o] = stage
        /\ \A r \in {"payout", "webhook", "refund"} \ {q} : job'[r][o] = job[r][o]
    BY <1>0, <1>1, MoveKeeps
  <1>4. TransfersPrecede(o)'
    BY <1>0, <1>2, <1>3 DEF TransfersPrecede, Owed, OrderRow, Outside
  <1>5. DeliveryPrecedes(o)'
    BY <1>0, <1>1, <1>2, <1>3 DEF DeliveryPrecedes
  <1> QED
    BY <1>2, <1>4, <1>5

(* A call settles an order, adds jobs for it, or delivers it by the fast   *)
(* path; nothing of it runs ahead of a transfer or a grant.                *)
LEMMA CallStepEffects ==
  ASSUME EffectsInv, TypeOK', NEW c \in Callers, CallStep(c)
  PROVE  EffectsInv'
  <1>0. /\ order \in [Orders -> OrderRow] /\ outside \in [Orders -> Outside]
        /\ job \in Jobs /\ call \in [Callers -> Call]
        /\ call[c].at # "idle" => call[c].order \in Orders
        /\ \A d \in Callers : call[d].at # "idle" => call[d].order \in Orders
        /\ \A o \in Orders : TransfersPrecede(o) /\ DeliveryPrecedes(o)
        /\ MaxGrants \in Nat \ {0}
    BY ConstantsAssumption DEF EffectsInv, TypeOK, ConstantsAssumption
  <1>1. CASE Commit(c)
    <2>1. PICK o \in Orders : o = call[c].order
      BY <1>0, <1>1 DEF Commit
    <2>2. UNCHANGED <<outside, job>>
      BY <1>1 DEF Commit
    <2>3. /\ order'[o].paymentStatus = "PAID"
          /\ order'[o].payoutOut = order[o].payoutOut
          /\ order'[o].refundOut = order[o].refundOut
          /\ order'[o].deliveryStatus = order[o].deliveryStatus
          /\ order'[o].delivery = order[o].delivery
          /\ \A w \in Orders \ {o} : order'[w] = order[w]
      BY <1>0, <1>1, <2>1 DEF Commit, OrderRow
    <2>4. TransfersPrecede(o)' /\ DeliveryPrecedes(o)'
      BY <1>0, <2>2, <2>3 DEF TransfersPrecede, DeliveryPrecedes, Owed
    <2>5. EffectsStep(o)
      BY <2>2, <2>3, <2>4 DEF EffectsStep
    <2>6. /\ call'[c].at = "settled"
          /\ \A d \in Callers \ {c} : call'[d] = call[d]
      BY <1>0, <1>1 DEF Commit
    <2> QED
      BY <1>0, <2>5, <2>6, EffectsStepKeeps
  <1>2. ASSUME NEW q \in {"payout", "webhook"}, NEW earlier, AddJob(c, q, earlier)
        PROVE  EffectsInv'
    <2>1. PICK o \in Orders : o = call[c].order
      BY <1>0, <1>2 DEF AddJob, IsNext
    <2>2. /\ job'[q][o] = IF job[q][o] = "none" THEN "waiting" ELSE job[q][o]
          /\ \A r \in {"payout", "webhook", "refund"}, w \in Orders :
               r # q \/ w # o => job'[r][w] = job[r][w]
      <3>1. job' = Add(job, q, o)
        BY <1>0, <1>2, <2>1 DEF AddJob
      <3> QED
        BY <1>0, <3>1, AddKeeps
    <2>3. UNCHANGED <<order, outside>>
      BY <1>2 DEF AddJob
    <2>4. TransfersPrecede(o)' /\ DeliveryPrecedes(o)'
      BY <1>0, <2>2, <2>3 DEF TransfersPrecede, DeliveryPrecedes, Owed
    <2>5. EffectsStep(o)
      BY <2>2, <2>3, <2>4 DEF EffectsStep
    <2>6. /\ call'[c].at # "record"
          /\ \A d \in Callers \ {c} : call'[d] = call[d]
      <3>1. Continue(c, call[c].todo \ {q})
        BY <1>2 DEF AddJob
      <3> QED
        BY <1>0, <3>1 DEF Continue, Return, NoCall, Call
    <2> QED
      BY <1>0, <2>5, <2>6, EffectsStepKeeps
  <1>3. CASE FastPathPost(c)
    <2>1. PICK o \in Orders : o = call[c].order
      BY <1>0, <1>3 DEF FastPathPost
    <2>2. UNCHANGED <<order, job>>
      BY <1>3 DEF FastPathPost
    <2>3. /\ outside'[o].payout = outside[o].payout
          /\ outside'[o].refund = outside[o].refund
          /\ outside[o].item > 0 => outside'[o].item > 0
          /\ \A w \in Orders \ {o} : outside'[w] = outside[w]
      BY <1>0, <1>3, <2>1 DEF FastPathPost, Grant, Outside
    <2>4. TransfersPrecede(o)' /\ DeliveryPrecedes(o)'
      BY <1>0, <2>2, <2>3 DEF TransfersPrecede, DeliveryPrecedes, Owed
    <2>5. EffectsStep(o)
      BY <2>2, <2>3, <2>4 DEF EffectsStep
    <2>6. /\ call'[c].at = "record" => call'[c].order = o /\ outside'[o].item > 0
          /\ \A d \in Callers \ {c} : call'[d] = call[d]
      BY <1>0, <1>3, <2>1 DEF FastPathPost, Grant, Outside, Return, NoCall, Call
    <2> QED
      BY <1>0, <2>5, <2>6, EffectsStepKeeps
  <1>4. CASE FastPathRecord(c)
    <2>1. PICK o \in Orders : o = call[c].order
      BY <1>0, <1>4 DEF FastPathRecord
    <2>2. UNCHANGED <<outside, job>> /\ outside[o].item > 0
      BY <1>4, <2>1 DEF FastPathRecord, EffectsInv, GrantPrecedes
    <2>3. /\ order'[o].paymentStatus = order[o].paymentStatus
          /\ order'[o].payoutOut = order[o].payoutOut
          /\ order'[o].refundOut = order[o].refundOut
          /\ order'[o].delivery
          /\ \A w \in Orders \ {o} : order'[w] = order[w]
      BY <1>0, <1>4, <2>1 DEF FastPathRecord, OrderRow
    <2>4. TransfersPrecede(o)' /\ DeliveryPrecedes(o)'
      BY <1>0, <2>2, <2>3 DEF TransfersPrecede, DeliveryPrecedes, Owed
    <2>5. EffectsStep(o)
      BY <2>2, <2>3, <2>4 DEF EffectsStep
    <2>6. /\ call'[c].at = "idle"
          /\ \A d \in Callers \ {c} : call'[d] = call[d]
      BY <1>0, <1>4 DEF FastPathRecord, Return, NoCall
    <2> QED
      BY <1>0, <2>5, <2>6, EffectsStepKeeps
  <1>5. CASE \/ Verify(c) \/ Write(c) \/ CommitRefused(c) \/ ReadMissing(c)
             \/ AddReward(c) \/ FastPathRead(c)
    <2>1. UNCHANGED <<order, outside, job>>
      BY <1>5 DEF Verify, Write, CommitRefused, ReadMissing, AddReward, FastPathRead
    <2>2. /\ call'[c].at # "record"
          /\ \A d \in Callers \ {c} : call'[d] = call[d]
      BY <1>0, <1>5 DEF Verify, Write, CommitRefused, ReadMissing, AddReward,
                        FastPathRead, Continue, Return, NoCall, Call
    <2> QED
      BY <2>1, <2>2, EffectsUnmoved
  <1> QED
    BY <1>1, <1>2, <1>3, <1>4, <1>5 DEF CallStep

(* Every step keeps transfers ahead of their ledger entries and deliveries *)
(* ahead of their statuses.                                                *)
LEMMA NextEffects ==
  ASSUME BackedInv, EffectsInv, [Next]_vars
  PROVE  EffectsInv'
  <1>0. TypeOK' /\ call \in [Callers -> Call]
    BY NextType DEF EffectsInv, TypeOK
  <1>1. ASSUME NEW o \in Orders,
               \/ PayoutStep(o) \/ WebhookStep(o) \/ RefundStep(o)
               \/ WebhookDeliveredFails(o)
               \/ \E q \in {"payout", "webhook", "refund"} :
                    JobFails(q, o) \/ Evict(q, o)
        PROVE  EffectsInv'
    <2>1. SettledStep(o) /\ UNCHANGED call
      BY <1>1, JobStepSettled
    <2>2. /\ TransfersPrecede(o)' /\ DeliveryPrecedes(o)'
          /\ outside[o].item > 0 => outside'[o].item > 0
      <3>1. CASE PayoutStep(o)
        BY <3>1, PayoutEffects
      <3>2. CASE RefundStep(o)
        BY <3>2, RefundEffects
      <3> QED
        BY <1>1, <3>1, <3>2, WebhookEffects, JobFailsEffects
    <2>3. EffectsStep(o)
      BY <2>1, <2>2 DEF EffectsStep, SettledStep
    <2>4. \A c \in Callers : call[c].at = "record" => call[c].order \in Orders
      BY DEF EffectsInv, TypeOK
    <2> QED
      BY <1>0, <2>1, <2>3, <2>4, EffectsStepKeeps
  <1>2. ASSUME NEW c \in Callers, NEW o \in Orders, NEW t \in Nat, Begin(c, o, t),
               UNCHANGED <<order, outside, job>>
        PROVE  EffectsInv'
    <2>1. /\ call'[c].at # "record"
          /\ \A d \in Callers \ {c} : call'[d] = call[d]
      BY <1>0, <1>2 DEF Begin, NoCall
    <2> QED
      BY <1>0, <1>2, <2>1, EffectsUnmoved
  <1>3. ASSUME NEW c \in Requests, NEW o \in Orders, NEW t \in 1..MaxPayments,
               Submit(c, o, t)
        PROVE  EffectsInv'
    <2>1. t \in Nat /\ c \in Callers
      BY ConstantsAssumption DEF ConstantsAssumption, Callers
    <2> QED
      BY <1>2, <1>3, <2>1 DEF Submit
  <1>4. ASSUME NEW p \in Pollers, PollAdvance(p) PROVE EffectsInv'
    <2>1. PICK m \in poll[p].todo : Begin(p, m[1], m[2])
      BY <1>4 DEF PollAdvance
    <2>2. m[1] \in Orders /\ m[2] \in Nat /\ p \in Callers
      BY DEF EffectsInv, TypeOK, Poll, Callers
    <2>3. UNCHANGED <<order, outside, job>>
      BY <1>4 DEF PollAdvance
    <2> QED
      BY <1>2, <2>1, <2>2, <2>3
  <1>5. ASSUME NEW c \in Callers, Return(c), UNCHANGED <<order, outside, job>>
        PROVE  EffectsInv'
    <2>1. /\ call'[c].at # "record"
          /\ \A d \in Callers \ {c} : call'[d] = call[d]
      BY <1>0, <1>5 DEF Return, NoCall
    <2> QED
      BY <1>0, <1>5, <2>1, EffectsUnmoved
  <1>6. ASSUME NEW p \in Pollers, PollFails(p) PROVE EffectsInv'
    <2>1. p \in Callers /\ Return(p) /\ UNCHANGED <<order, outside, job>>
      BY <1>6 DEF PollFails, Callers
    <2> QED
      BY <1>5, <2>1
  <1>7. ASSUME NEW c \in Callers, CallFails(c) PROVE EffectsInv'
    BY <1>5, <1>7 DEF CallFails
  <1>8. CASE UNCHANGED <<order, outside, job, call>>
    BY <1>0, <1>8 DEF EffectsInv, TransfersPrecede, DeliveryPrecedes, Owed,
                      GrantPrecedes
  <1>9. ASSUME NEW p \in Pollers,
               PollMatch(p) \/ PollDone(p) \/ \E lost : PollFetch(p, lost)
        PROVE  EffectsInv'
    BY <1>8, <1>9 DEF PollMatch, PollDone, PollFetch
  <1>10. CASE \/ \E memo \in Memos, amount \in Amounts : Pay(memo, amount)
              \/ \E p \in Players : Bind(p)
              \/ UNCHANGED vars
    BY <1>8, <1>10 DEF Pay, Bind, vars
  <1>11. ASSUME NEW c \in Callers, CallStep(c) PROVE EffectsInv'
    BY <1>0, <1>11, CallStepEffects
  <1> QED
    BY <1>1, <1>3, <1>4, <1>6, <1>7, <1>9, <1>10, <1>11 DEF Next, Failure, PollStep

(* Initially nothing has left the platform and nothing is recorded.        *)
LEMMA InitEffects == Init => EffectsInv
  <1> SUFFICES ASSUME Init PROVE EffectsInv
    OBVIOUS
  <1>1. \A o \in Orders : TransfersPrecede(o) /\ DeliveryPrecedes(o)
    BY DEF Init, TransfersPrecede, DeliveryPrecedes, Owed
  <1>2. GrantPrecedes
    BY DEF Init, NoCall, GrantPrecedes
  <1> QED
    BY <1>1, <1>2, InitType DEF EffectsInv

(* The invariant says what is promised of each effect.                     *)
LEMMA EffectsImply ==
  ASSUME EffectsInv
  PROVE  LedgerIsOnChain /\ DeliveredWasGranted /\ RefundIsAccounted
  <1> SUFFICES ASSUME NEW o \in Orders
               PROVE  /\ order[o].payoutOut <= outside[o].payout
                      /\ order[o].refundOut <= outside[o].refund
                      /\ order[o].deliveryStatus = "DELIVERED" => outside[o].item > 0
                      /\ order[o].paymentStatus = "REFUNDED" => order[o].refundOut > 0
                      /\ outside[o].refund > 0 => order[o].delivery
    BY DEF LedgerIsOnChain, DeliveredWasGranted, RefundIsAccounted
  <1>1. order[o] \in OrderRow /\ outside[o] \in Outside
    BY DEF EffectsInv, TypeOK
  <1> QED
    BY <1>1 DEF EffectsInv, TransfersPrecede, DeliveryPrecedes, Owed, OrderRow, Outside

(* Whatever fails between a transfer and its transaction, and however      *)
(* often a job runs again: every PAYOUT_OUT or REFUND entry of the ledger  *)
(* has a transfer of its own.                                              *)
THEOREM LedgerCorrect == Spec => []LedgerIsOnChain
  BY EffectsImply, InitEffects, InitBacked, NextEffects, NextBacked, PTL DEF Spec

(* An order is DELIVERED, by the worker or by the fast path, only if the   *)
(* game has granted its item.                                              *)
THEOREM DeliveredCorrect == Spec => []DeliveredWasGranted
  BY EffectsImply, InitEffects, InitBacked, NextEffects, NextBacked, PTL DEF Spec

(* An order is REFUNDED only with its ledger entry, and a refund leaves    *)
(* the platform only after an attempt to deliver the order.                *)
THEOREM RefundCorrect == Spec => []RefundIsAccounted
  BY EffectsImply, InitEffects, InitBacked, NextEffects, NextBacked, PTL DEF Spec

--------------------------------------------------------------------------------
(* Transfers repeat only after failures                                    *)

(* An order whose transfers and jobs stay as they are keeps its bound.     *)
LEMMA SentOnceKept ==
  ASSUME TypeOK, TypeOK', NEW w \in Orders, SentOnce(w), faults' >= faults,
         outside'[w].payout = outside[w].payout,
         outside'[w].refund = outside[w].refund,
         \A q \in {"payout", "refund"} :
           \/ job'[q][w] = job[q][w]
           \/ job[q][w] = "none" /\ job'[q][w] = "waiting"
           \/ job[q][w] = "waiting" /\ job'[q][w] \in {"send", "done"}
           \/ job[q][w] = "record" /\ job'[q][w] = "done"
           \/ faults' = faults + 1
  PROVE  SentOnce(w)'
  <1>1. /\ outside[w] \in Outside /\ faults \in Nat /\ faults' \in Nat
    BY ConstantsAssumption DEF TypeOK, ConstantsAssumption
  <1> QED
    BY <1>1 DEF SentOnce, SentAtMost, Outside

(* A step of a job sends only from the stage that counts one transfer less. *)
LEMMA JobStepOnce ==
  ASSUME BackedInv, OnceInv, TypeOK', NEW o \in Orders,
         \/ PayoutStep(o) \/ WebhookStep(o) \/ RefundStep(o)
         \/ WebhookDeliveredFails(o)
         \/ \E q \in {"payout", "webhook", "refund"} : JobFails(q, o) \/ Evict(q, o)
  PROVE  SentOnce(o)' /\ faults' >= faults
  <1>0. /\ outside[o] \in Outside /\ job \in Jobs /\ faults \in Nat
        /\ outside \in [Orders -> Outside]
        /\ TypeOK /\ SentOnce(o)
    BY ConstantsAssumption DEF OnceInv, TypeOK, ConstantsAssumption
  <1>1. CASE PayoutSend(o)
    <2>1. /\ job["payout"][o] = "send" /\ job'["payout"][o] = "record"
          /\ job'["refund"][o] = job["refund"][o]
          /\ faults' = faults
      BY <1>0, <1>1, MoveKeeps DEF PayoutSend
    <2>2. /\ outside'[o].payout = outside[o].payout + 1
          /\ outside'[o].refund = outside[o].refund
      BY <1>0, <1>1 DEF PayoutSend, Outside
    <2> QED
      BY <1>0, <2>1, <2>2 DEF SentOnce, SentAtMost, Outside
  <1>2. CASE RefundSend(o)
    <2>1. /\ job["refund"][o] = "waiting" /\ job'["refund"][o] = "record"
          /\ job'["payout"][o] = job["payout"][o]
          /\ faults' = faults
      BY <1>0, <1>2, MoveKeeps DEF RefundSend
    <2>2. /\ outside'[o].refund = outside[o].refund + 1
          /\ outside'[o].payout = outside[o].payout
      BY <1>0, <1>2 DEF RefundSend, Outside
    <2> QED
      BY <1>0, <2>1, <2>2 DEF SentOnce, SentAtMost, Outside
  <1>3. CASE PayoutStart(o) \/ PayoutRecord(o)
    <2>1. /\ \/ job["payout"][o] = "waiting" /\ job'["payout"][o] \in {"send", "done"}
             \/ job["payout"][o] = "record" /\ job'["payout"][o] = "done"
          /\ job'["refund"][o] = job["refund"][o]
          /\ UNCHANGED <<outside, faults>>
      BY <1>0, <1>3, MoveKeeps DEF PayoutStart, PayoutRecord
    <2> QED
      BY <1>0, <2>1, SentOnceKept
  <1>4. CASE RefundRecord(o)
    <2>1. /\ job["refund"][o] = "record" /\ job'["refund"][o] = "done"
          /\ job'["payout"][o] = job["payout"][o]
          /\ UNCHANGED <<outside, faults>>
      BY <1>0, <1>4, MoveKeeps DEF RefundRecord
    <2> QED
      BY <1>0, <2>1, SentOnceKept
  <1>5. CASE WebhookAddRefund(o)
    <2> DEFINE added == Add(job, "refund", o)
    <2>1. /\ added \in Jobs
          /\ added["refund"][o] = IF job["refund"][o] = "none"
                                    THEN "waiting" ELSE job["refund"][o]
          /\ added["payout"][o] = job["payout"][o]
      BY <1>0, MoveKeeps, MoveType DEF Add, Jobs
    <2>2. /\ job'["refund"][o] = added["refund"][o]
          /\ job'["payout"][o] = added["payout"][o]
          /\ UNCHANGED <<outside, faults>>
      BY <1>5, <2>1 DEF WebhookAddRefund, Move, Jobs
    <2> HIDE DEF added
    <2> QED
      BY <1>0, <2>1, <2>2, SentOnceKept
  <1>6. CASE /\ WebhookStep(o) \/ WebhookDeliveredFails(o)
             /\ ~WebhookAddRefund(o)
    <2>1. PICK stage : job' = Move(job, "webhook", o, stage)
      BY <1>6 DEF WebhookStep, WebhookStart, WebhookCreate, WebhookPost,
                  WebhookDelivered, WebhookNotDelivered, WebhookDeliveredFails
    <2>2. /\ job'["payout"][o] = job["payout"][o]
          /\ job'["refund"][o] = job["refund"][o]
      BY <1>0, <2>1, MoveKeeps
    <2>3. UNCHANGED outside \/ Grant(o)
      BY <1>6 DEF WebhookStep, WebhookStart, WebhookCreate, WebhookPost,
                  WebhookDelivered, WebhookNotDelivered, WebhookDeliveredFails
    <2>4. /\ outside'[o].payout = outside[o].payout
          /\ outside'[o].refund = outside[o].refund
      BY <1>0, <2>3 DEF Grant, Outside
    <2>5. faults' >= faults
      BY <1>0, <1>6 DEF WebhookStep, WebhookStart, WebhookCreate, WebhookPost,
                        WebhookDelivered, WebhookNotDelivered, WebhookDeliveredFails,
                        Fault
    <2> QED
      BY <1>0, <2>2, <2>4, <2>5, SentOnceKept
  <1>7. ASSUME NEW q \in {"payout", "webhook", "refund"}, JobFails(q, o) \/ Evict(q, o)
        PROVE  SentOnce(o)' /\ faults' >= faults
    <2>1. faults' = faults + 1 /\ UNCHANGED outside
      BY <1>7 DEF JobFails, Evict, Fault
    <2> QED
      BY <1>0, <2>1, SentOnceKept
  <1> QED
    BY <1>1, <1>2, <1>3, <1>4, <1>5, <1>6, <1>7
       DEF PayoutStep, RefundStep

(* A call adds jobs that are not there, and grants by the fast path, but   *)
(* sends nothing itself.                                                   *)
LEMMA CallStepOnce ==
  ASSUME OnceInv, TypeOK', NEW c \in Callers, CallStep(c)
  PROVE  OnceInv'
  <1>0. /\ outside \in [Orders -> Outside] /\ job \in Jobs /\ faults \in Nat
        /\ call[c].at # "idle" => call[c].order \in Orders
        /\ TypeOK /\ \A w \in Orders : SentOnce(w)
    BY ConstantsAssumption DEF OnceInv, TypeOK, ConstantsAssumption
  <1>1. ASSUME NEW q \in {"payout", "webhook"}, NEW earlier, AddJob(c, q, earlier)
        PROVE  OnceInv'
    <2>1. PICK o \in Orders : o = call[c].order
      BY <1>0, <1>1 DEF AddJob, IsNext
    <2>2. /\ job'[q][o] = IF job[q][o] = "none" THEN "waiting" ELSE job[q][o]
          /\ \A r \in {"payout", "webhook", "refund"}, w \in Orders :
               r # q \/ w # o => job'[r][w] = job[r][w]
      <3>1. job' = Add(job, q, o)
        BY <1>0, <1>1, <2>1 DEF AddJob
      <3> QED
        BY <1>0, <3>1, AddKeeps
    <2>3. UNCHANGED <<outside, faults>>
      BY <1>1 DEF AddJob
    <2>4. ASSUME NEW w \in Orders PROVE SentOnce(w)'
      BY <1>0, <2>2, <2>3, SentOnceKept
    <2> QED
      BY <2>4 DEF OnceInv
  <1>2. CASE FastPathPost(c)
    <2>1. PICK o \in Orders : o = call[c].order
      BY <1>0, <1>2 DEF FastPathPost
    <2>2. /\ UNCHANGED <<job, faults>>
          /\ Grant(o) \/ UNCHANGED outside
      BY <1>2, <2>1 DEF FastPathPost
    <2>3. ASSUME NEW w \in Orders PROVE SentOnce(w)'
      <3>1. /\ outside'[w].payout = outside[w].payout
            /\ outside'[w].refund = outside[w].refund
        BY <1>0, <2>2 DEF Grant, Outside
      <3> QED
        BY <1>0, <2>2, <3>1, SentOnceKept
    <2> QED
      BY <2>3 DEF OnceInv
  <1>3. CASE UNCHANGED <<outside, job, faults>>
    BY <1>0, <1>3 DEF OnceInv, SentOnce, SentAtMost
  <1>4. CASE \/ Verify(c) \/ Write(c) \/ CommitRefused(c) \/ Commit(c)
             \/ ReadMissing(c) \/ AddReward(c) \/ FastPathRead(c) \/ FastPathRecord(c)
    <2>1. CASE Commit(c) \/ Write(c)
      BY <1>3, <2>1 DEF Commit, Write
    <2>2. CASE Verify(c) \/ CommitRefused(c) \/ ReadMissing(c)
      BY <1>3, <2>2 DEF Verify, CommitRefused, ReadMissing
    <2>3. CASE AddReward(c) \/ FastPathRead(c) \/ FastPathRecord(c)
      BY <1>3, <2>3 DEF AddReward, FastPathRead, FastPathRecord
    <2> QED
      BY <1>4, <2>1, <2>2, <2>3
  <1> QED
    BY <1>1, <1>2, <1>4 DEF CallStep

(* Every step keeps the number of transfers within the failures so far.    *)
LEMMA NextOnce ==
  ASSUME BackedInv, OnceInv, [Next]_vars
  PROVE  OnceInv'
  <1>0. /\ TypeOK' /\ TypeOK /\ faults \in Nat
        /\ \A w \in Orders : SentOnce(w)
    BY NextType, ConstantsAssumption DEF OnceInv, TypeOK, ConstantsAssumption
  <1>1. ASSUME NEW o \in Orders,
               \/ PayoutStep(o) \/ WebhookStep(o) \/ RefundStep(o)
               \/ WebhookDeliveredFails(o)
               \/ \E q \in {"payout", "webhook", "refund"} :
                    JobFails(q, o) \/ Evict(q, o)
        PROVE  OnceInv'
    <2>1. SettledStep(o)
      BY <1>1, JobStepSettled
    <2>2. SentOnce(o)' /\ faults' >= faults
      BY <1>0, <1>1, JobStepOnce
    <2>3. ASSUME NEW w \in Orders \ {o} PROVE SentOnce(w)'
      BY <1>0, <2>1, <2>2, SentOnceKept DEF SettledStep
    <2> QED
      BY <1>0, <2>2, <2>3 DEF OnceInv
  <1>2. CASE UNCHANGED <<outside, job>> /\ faults' >= faults
    <2>1. ASSUME NEW w \in Orders PROVE SentOnce(w)'
      BY <1>0, <1>2, SentOnceKept
    <2> QED
      BY <1>0, <2>1 DEF OnceInv
  <1>3. CASE \/ \E memo \in Memos, amount \in Amounts : Pay(memo, amount)
             \/ \E p \in Players : Bind(p)
             \/ \E c \in Requests, o \in Orders, t \in 1..MaxPayments : Submit(c, o, t)
             \/ UNCHANGED vars
    <2>1. UNCHANGED <<outside, job, faults>>
      BY <1>3 DEF Pay, Bind, Submit, vars
    <2> QED
      BY <1>0, <1>2, <2>1
  <1>4. ASSUME NEW p \in Pollers,
               \/ PollStep(p) \/ PollFails(p) \/ \E lost : PollFetch(p, lost)
        PROVE  OnceInv'
    BY <1>0, <1>2, <1>4
       DEF PollStep, PollFails, PollFetch, PollMatch, PollAdvance, PollDone, Fault
  <1>5. ASSUME NEW c \in Callers, CallFails(c) PROVE OnceInv'
    BY <1>0, <1>2, <1>5 DEF CallFails, Fault
  <1>6. ASSUME NEW c \in Callers, CallStep(c) PROVE OnceInv'
    BY <1>0, <1>6, CallStepOnce
  <1> QED
    BY <1>1, <1>3, <1>4, <1>5, <1>6 DEF Next, Failure

(* Initially nothing is sent.                                              *)
LEMMA InitOnce == Init => OnceInv
  <1> SUFFICES ASSUME Init PROVE OnceInv
    OBVIOUS
  <1>1. \A o \in Orders : SentOnce(o)
    BY DEF Init, SentOnce, SentAtMost
  <1> QED
    BY <1>1, InitType DEF OnceInv

(* However many calls race to settle an order and add its jobs, it is paid *)
(* out once and refunded once, and one time more at most for each failure. *)
THEOREM OnceCorrect == Spec => []TransfersBounded
  <1>1. OnceInv => TransfersBounded
    <2> SUFFICES ASSUME OnceInv, NEW o \in Orders
                 PROVE  outside[o].payout <= 1 + faults /\ outside[o].refund <= 1 + faults
      BY DEF TransfersBounded
    <2>1. outside[o] \in Outside /\ faults \in Nat
      BY ConstantsAssumption DEF OnceInv, TypeOK, ConstantsAssumption
    <2> QED
      BY <2>1 DEF OnceInv, SentOnce, SentAtMost, Outside
  <1> QED
    BY <1>1, InitOnce, InitBacked, NextOnce, NextBacked, PTL DEF Spec

--------------------------------------------------------------------------------
(* The reward falls due at a settlement                                    *)

(* A commit that qualifies takes the referral from PENDING, and counts its *)
(* own order.                                                              *)
LEMMA CommitDue ==
  ASSUME TypeOK, NEW c \in Callers, Commit(c)
  PROVE  /\ Qualifies(c) => call'[c].at = "settled" /\ RewardIsDue(c)
         /\ "reward" \in call'[c].todo => Qualifies(c)
         /\ \A d \in Callers \ {c} : call'[d] = call[d]
         /\ \A p \in Players :
              referral'[p] # referral[p] => Qualifies(c) /\ p = Buyer[call[c].order]
  <1>1. /\ call[c].order \in Orders
        /\ order \in [Orders -> OrderRow] /\ call \in [Callers -> Call]
        /\ referral \in [Players -> Referral]
        /\ Buyer[call[c].order] \in Players
    BY ConstantsAssumption DEF TypeOK, Commit, ConstantsAssumption
  <1>2. PICK o \in Orders, p \in Players : o = call[c].order /\ p = Buyer[o]
    BY <1>1
  <1>3. /\ call'[c].at = "settled"
        /\ "reward" \in call'[c].todo => Qualifies(c)
        /\ \A d \in Callers \ {c} : call'[d] = call[d]
    BY <1>1 DEF Commit
  <1>4. order'[o].saleIn = order[o].saleIn + 1
    BY <1>1, <1>2 DEF Commit, OrderRow
  <1>5. CASE Qualifies(c)
    <2>1. /\ referral' = [referral EXCEPT ![p].status = "QUALIFIED",
                                          ![p].qualifyingOrder = o]
          /\ referral[p].status = "PENDING"
      BY <1>2, <1>5 DEF Commit, Qualifies
    <2>2. /\ referral'[p].status = "QUALIFIED" /\ referral'[p].qualifyingOrder = o
          /\ \A w \in Players \ {p} : referral'[w] = referral[w]
      BY <1>1, <2>1 DEF Referral
    <2>3. referral[p].status = "PENDING"
      BY <2>1
    <2>4. RewardIsDue(c)
      BY <1>2, <1>4, <2>3, <2>2 DEF RewardIsDue
    <2>5. \A w \in Players : referral'[w] # referral[w] => w = Buyer[call[c].order]
      BY <1>2, <2>2
    <2> QED
      BY <1>3, <1>5, <2>4, <2>5
  <1>6. CASE ~Qualifies(c)
    BY <1>3, <1>6 DEF Commit
  <1> QED
    BY <1>5, <1>6

(* The other steps of a call pass no referral on to its reward.            *)
LEMMA NoCommitNoReward ==
  ASSUME TypeOK, NEW c \in Callers, CallStep(c), ~Commit(c)
  PROVE  /\ call'[c].at # "settled"
         /\ \A d \in Callers \ {c} : call'[d] = call[d]
         /\ \A p \in Players : referral'[p].status = referral[p].status
  <1>1. /\ call \in [Callers -> Call] /\ referral \in [Players -> Referral]
    BY DEF TypeOK
  <1>2. CASE AddReward(c)
    <2>1. /\ referral' = [referral EXCEPT ![Buyer[call[c].order]].queued = TRUE]
          /\ Continue(c, call[c].todo \ {"reward"})
      BY <1>2 DEF AddReward
    <2>2. \A p \in Players : referral'[p].status = referral[p].status
      BY <1>1, <2>1 DEF Referral
    <2> QED
      BY <1>1, <2>1, <2>2 DEF Continue, Return, NoCall, Call
  <1>3. ASSUME NEW left, Continue(c, left), UNCHANGED referral
        PROVE  /\ call'[c].at # "settled"
               /\ \A d \in Callers \ {c} : call'[d] = call[d]
               /\ \A p \in Players : referral'[p].status = referral[p].status
    BY <1>1, <1>3 DEF Continue, Return, NoCall, Call
  <1>4. CASE ReadMissing(c)
    BY <1>3, <1>4 DEF ReadMissing
  <1>5. ASSUME NEW q, NEW earlier, AddJob(c, q, earlier)
        PROVE  /\ call'[c].at # "settled"
               /\ \A d \in Callers \ {c} : call'[d] = call[d]
               /\ \A p \in Players : referral'[p].status = referral[p].status
    BY <1>3, <1>5 DEF AddJob
  <1>6. CASE Verify(c) \/ Write(c) \/ CommitRefused(c)
    BY <1>1, <1>6 DEF Verify, Write, CommitRefused, Return, NoCall, Call
  <1>7. CASE FastPathRead(c) \/ FastPathPost(c) \/ FastPathRecord(c)
    BY <1>1, <1>7 DEF FastPathRead, FastPathPost, FastPathRecord, Return, NoCall, Call
  <1> QED
    BY <1>2, <1>4, <1>5, <1>6, <1>7 DEF CallStep

(* What a step must do to a reward, without the box.                       *)
RewardStep ==
  /\ \A c \in Callers :
       call'[c].at = "settled" /\ "reward" \in call'[c].todo
         => call'[c] = call[c] \/ RewardIsDue(c)
  /\ \A p \in Players :
       referral[p].status = "PENDING" /\ referral'[p].status # "PENDING"
         => \E c \in Callers : call'[c].at = "settled" /\ RewardIsDue(c)

(* A step in which at most one call begins, returns or fails.              *)
LEMMA NobodyCommits ==
  ASSUME TypeOK, UNCHANGED referral,
         \A c \in Callers :
           \/ call'[c] = call[c]
           \/ call'[c].at # "settled"
           \/ call'[c].todo = {}
  PROVE  RewardStep
  BY DEF RewardStep

(* Every step does.                                                        *)
LEMMA NextReward ==
  ASSUME TypeOK, [Next]_vars
  PROVE  RewardStep
  <1>0. call \in [Callers -> Call] /\ referral \in [Players -> Referral]
    BY DEF TypeOK
  <1>1. ASSUME NEW c \in Callers, Commit(c) PROVE RewardStep
    <2>1. ASSUME NEW d \in Callers, call'[d].at = "settled", "reward" \in call'[d].todo
          PROVE  call'[d] = call[d] \/ RewardIsDue(d)
      BY <1>1, <2>1, CommitDue
    <2>2. ASSUME NEW p \in Players,
                 referral[p].status = "PENDING", referral'[p].status # "PENDING"
          PROVE  \E d \in Callers : call'[d].at = "settled" /\ RewardIsDue(d)
      BY <1>1, <2>2, CommitDue
    <2> QED
      BY <2>1, <2>2 DEF RewardStep
  <1>2. ASSUME NEW c \in Callers, CallStep(c), ~Commit(c) PROVE RewardStep
    <2>1. /\ call'[c].at # "settled"
          /\ \A d \in Callers \ {c} : call'[d] = call[d]
          /\ \A p \in Players : referral'[p].status = referral[p].status
      BY <1>2, NoCommitNoReward
    <2> QED
      BY <2>1 DEF RewardStep
  <1>3. ASSUME NEW p \in Players, Bind(p) PROVE RewardStep
    <2>1. \A w \in Players :
            referral[w].status = "PENDING" => referral'[w].status = "PENDING"
      BY <1>0, <1>3 DEF Bind, Referral
    <2>2. UNCHANGED call
      BY <1>3 DEF Bind
    <2> QED
      BY <2>1, <2>2 DEF RewardStep
  <1>4. ASSUME NEW c \in Callers, UNCHANGED referral,
               Return(c) \/ \E o, t : Begin(c, o, t)
        PROVE  RewardStep
    <2>1. ASSUME Return(c)
          PROVE  \A d \in Callers : call'[d] = call[d] \/ call'[d].todo = {}
      BY <1>0, <2>1 DEF Return, NoCall
    <2>2. ASSUME NEW o, NEW t, Begin(c, o, t)
          PROVE  \A d \in Callers : call'[d] = call[d] \/ call'[d].todo = {}
      BY <1>0, <2>2 DEF Begin, NoCall
    <2>3. \A d \in Callers : call'[d] = call[d] \/ call'[d].todo = {}
      BY <1>4, <2>1, <2>2
    <2> QED
      BY <1>4, <2>3, NobodyCommits
  <1>5. ASSUME NEW c \in Requests, NEW o, NEW t, Submit(c, o, t) PROVE RewardStep
    BY <1>4, <1>5 DEF Submit, Callers
  <1>6. ASSUME NEW p \in Pollers, PollAdvance(p) \/ PollFails(p) PROVE RewardStep
    BY <1>4, <1>6 DEF PollAdvance, PollFails, Callers
  <1>7. ASSUME NEW c \in Callers, CallFails(c) PROVE RewardStep
    BY <1>4, <1>7 DEF CallFails
  <1>8. CASE UNCHANGED <<call, referral>>
    BY <1>8 DEF RewardStep
  <1>9. ASSUME NEW p \in Pollers,
               PollMatch(p) \/ PollDone(p) \/ \E lost : PollFetch(p, lost)
        PROVE  RewardStep
    BY <1>8, <1>9 DEF PollMatch, PollDone, PollFetch
  <1>10. ASSUME NEW o \in Orders, PayoutStep(o) \/ WebhookStep(o) \/ RefundStep(o)
         PROVE  RewardStep
    BY <1>8, <1>10, WorkerStepFrame
  <1>11. ASSUME NEW o \in Orders,
                \/ WebhookDeliveredFails(o)
                \/ \E q \in {"payout", "webhook", "refund"} :
                     JobFails(q, o) \/ Evict(q, o)
         PROVE  RewardStep
    BY <1>8, <1>11 DEF WebhookDeliveredFails, JobFails, Evict
  <1>12. CASE \/ \E memo \in Memos, amount \in Amounts : Pay(memo, amount)
              \/ UNCHANGED vars
    BY <1>8, <1>12 DEF Pay, vars
  <1> QED
    BY <1>1, <1>2, <1>3, <1>5, <1>6, <1>7, <1>9, <1>10, <1>11, <1>12
       DEF Next, Failure, PollStep

(* Whichever calls race to settle the orders of a player: a reward falls   *)
(* due only at the commit that takes the player's referral from PENDING to *)
(* QUALIFIED and records its own order with it, so once per referral.      *)
THEOREM RewardDueCorrect == Spec => RewardDueOnce
  <1>1. TypeOK /\ [Next]_vars => [RewardStep]_vars
    BY NextReward
  <1> QED
    BY <1>1, InitType, NextType, PTL DEF Spec, RewardDueOnce, RewardStep

--------------------------------------------------------------------------------
(* The cursor passes no payment of a pending order                         *)

(* No order goes back to PENDING.                                          *)
LEMMA PendingShrinks ==
  ASSUME BackedInv, [Next]_vars, NEW o \in Orders,
         order'[o].paymentStatus = "PENDING"
  PROVE  order[o].paymentStatus = "PENDING"
  <1>0. order \in [Orders -> OrderRow]
    BY DEF BackedInv, TypeOK
  <1>1. ASSUME NEW c \in Callers, CallStep(c)
        PROVE  order[o].paymentStatus = "PENDING"
    <2>1. CASE Commit(c)
      <3>1. order' = [order EXCEPT ![call[c].order].paymentStatus = "PAID",
                                   ![call[c].order].stellarTxHash = call[c].tx,
                                   ![call[c].order].saleIn = @ + 1]
        BY <2>1 DEF Commit
      <3> QED
        BY <1>0, <3>1 DEF OrderRow
    <2>2. CASE FastPathRecord(c)
      BY <1>0, <2>2 DEF FastPathRecord, OrderRow
    <2>3. CASE ~Commit(c) /\ ~FastPathRecord(c)
      BY <1>1, <2>3 DEF CallStep, Verify, Write, CommitRefused, ReadMissing, AddJob,
                        AddReward, FastPathRead, FastPathPost
    <2> QED
      BY <2>1, <2>2, <2>3
  <1>2. ASSUME NEW w \in Orders, PayoutStep(w) \/ WebhookStep(w) \/ RefundStep(w)
        PROVE  order[o].paymentStatus = "PENDING"
    <2>1. \/ UNCHANGED order
          \/ order' = [order EXCEPT ![w].payoutOut = @ + 1]
          \/ order' = [order EXCEPT ![w].delivery = TRUE]
          \/ order' = [order EXCEPT ![w].deliveryStatus = "DELIVERED"]
          \/ order' = [order EXCEPT ![w].deliveryStatus = "FAILED"]
          \/ order' = [order EXCEPT ![w].paymentStatus = "REFUNDED",
                                    ![w].refundOut = @ + 1]
      BY <1>2
         DEF PayoutStep, PayoutStart, PayoutSend, PayoutRecord, WebhookStep,
             WebhookStart, WebhookCreate, WebhookPost, WebhookDelivered,
             WebhookNotDelivered, WebhookAddRefund, RefundStep, RefundSend,
             RefundRecord
    <2> QED
      BY <1>0, <2>1 DEF OrderRow
  <1>3. ASSUME NEW w \in Orders,
               \/ WebhookDeliveredFails(w)
               \/ \E q \in {"payout", "webhook", "refund"} :
                    JobFails(q, w) \/ Evict(q, w)
        PROVE  order[o].paymentStatus = "PENDING"
    BY <1>3 DEF WebhookDeliveredFails, JobFails, Evict
  <1>4. ASSUME NEW p \in Pollers,
               \/ PollStep(p) \/ PollFails(p) \/ \E lost : PollFetch(p, lost)
        PROVE  UNCHANGED order
    BY <1>4 DEF PollStep, PollFails, PollFetch, PollMatch, PollAdvance, PollDone
  <1> QED
    BY <1>1, <1>2, <1>3, <1>4 DEF Next, Failure, Pay, Bind, Submit, CallFails, vars

(* Failures are counted and never forgotten.                               *)
LEMMA FaultsGrow ==
  ASSUME TypeOK, [Next]_vars
  PROVE  faults' >= faults /\ faults \in Nat
  <1>0. faults \in Nat
    BY ConstantsAssumption DEF TypeOK, ConstantsAssumption
  <1>1. UNCHANGED faults \/ Fault
    <2>1. ASSUME NEW c \in Callers, CallStep(c) PROVE UNCHANGED faults
      BY <2>1, CallStepFrame
    <2>2. ASSUME NEW o \in Orders, PayoutStep(o) \/ WebhookStep(o) \/ RefundStep(o)
          PROVE  UNCHANGED faults
      BY <2>2, WorkerStepFrame
    <2>3. ASSUME NEW p \in Pollers, NEW lost, PollFetch(p, lost)
          PROVE  UNCHANGED faults \/ Fault
      BY <2>3 DEF PollFetch
    <2>4. ASSUME NEW p \in Pollers, PollMatch(p) \/ PollAdvance(p) \/ PollDone(p)
          PROVE  UNCHANGED faults
      BY <2>4 DEF PollMatch, PollAdvance, PollDone
    <2>5. CASE Failure
      BY <2>3, <2>5 DEF Failure, PollFails, CallFails, WebhookDeliveredFails, JobFails,
                        Evict
    <2> QED
      BY <2>1, <2>2, <2>3, <2>4, <2>5 DEF Next, PollStep, Pay, Bind, Submit, vars
  <1> QED
    BY <1>0, <1>1 DEF Fault

(* Only a poll job that is done moves the cursor.                          *)
LEMMA CursorMoves ==
  ASSUME [Next]_vars, ~\E p \in Pollers : PollDone(p)
  PROVE  cursor' = cursor
  <1>1. ASSUME NEW c \in Callers, CallStep(c) PROVE UNCHANGED cursor
    BY <1>1, CallStepFrame
  <1>2. ASSUME NEW o \in Orders, PayoutStep(o) \/ WebhookStep(o) \/ RefundStep(o)
        PROVE  UNCHANGED cursor
    BY <1>2, WorkerStepFrame
  <1>3. ASSUME NEW p \in Pollers,
               \/ PollMatch(p) \/ PollAdvance(p) \/ \E lost : PollFetch(p, lost)
        PROVE  UNCHANGED cursor
    BY <1>3 DEF PollMatch, PollAdvance, PollFetch
  <1>4. CASE Failure
    BY <1>3, <1>4 DEF Failure, PollFails, CallFails, WebhookDeliveredFails, JobFails,
                      Evict
  <1> QED
    BY <1>1, <1>2, <1>3, <1>4 DEF Next, PollStep, Pay, Bind, Submit, vars

(* Payments are only added to the chain.                                   *)
LEMMA ChainGrows ==
  ASSUME BackedInv, [Next]_vars
  PROVE  /\ Len(chain) \in Nat /\ Len(chain') >= Len(chain)
         /\ \A t \in 1..Len(chain) : chain'[t] = chain[t]
  <1>0. chain \in Seq(Payment(Memos, Amounts)) /\ Len(chain) \in Nat
    BY LenProperties DEF BackedInv, TypeOK
  <1>1. ASSUME NEW memo \in Memos, NEW amount \in Amounts, Pay(memo, amount)
        PROVE  /\ Len(chain') >= Len(chain)
               /\ \A t \in 1..Len(chain) : chain'[t] = chain[t]
    <2>1. [memo |-> memo, amount |-> amount] \in Payment(Memos, Amounts)
      BY DEF Payment
    <2> QED
      BY <1>0, <1>1, <2>1, AppendProperties DEF Pay
  <1>2. ASSUME NEW c \in Callers, CallStep(c) PROVE UNCHANGED chain
    BY <1>2, CallStepFrame
  <1>3. ASSUME NEW o \in Orders,
               \/ PayoutStep(o) \/ WebhookStep(o) \/ RefundStep(o)
               \/ WebhookDeliveredFails(o)
               \/ \E q \in {"payout", "webhook", "refund"} :
                    JobFails(q, o) \/ Evict(q, o)
        PROVE  UNCHANGED chain
    BY <1>3, JobStepSettled DEF SettledStep
  <1>4. ASSUME NEW p \in Pollers,
               \/ PollStep(p) \/ PollFails(p) \/ \E lost : PollFetch(p, lost)
        PROVE  UNCHANGED chain
    BY <1>4 DEF PollStep, PollFails, PollFetch, PollMatch, PollAdvance, PollDone
  <1>5. UNCHANGED chain \/ \E memo \in Memos, amount \in Amounts : Pay(memo, amount)
    BY <1>2, <1>3, <1>4 DEF Next, Failure, Bind, Submit, CallFails, vars
  <1> QED
    BY <1>0, <1>1, <1>5

(* A payment already received that covers a pending order after a step did *)
(* so before it.                                                           *)
LEMMA CoveredBefore ==
  ASSUME BackedInv, [Next]_vars, NEW o \in Pending', NEW t \in 1..Len(chain),
         Covers(t, o)'
  PROVE  o \in Pending /\ Covers(t, o)
  <1>1. o \in Pending
    BY PendingShrinks DEF Pending
  <1>2. Covers(t, o)
    BY ChainGrows DEF Covers
  <1> QED
    BY <1>1, <1>2

(* With memos of their own, no order holds the payment that covers another. *)
LEMMA CoveredIsFree ==
  ASSUME BackedInv, MemosDistinct, NEW o \in Orders, NEW t, Covers(t, o)
  PROVE  ~HeldByAnother(t, o)
  <1> SUFFICES ASSUME NEW w \in Orders \ {o}, order[w].stellarTxHash = t
               PROVE  FALSE
    BY DEF HeldByAnother
  <1>1. t # NoTx
    BY DEF Covers, NoTx
  <1>2. Covers(t, w)
    BY <1>1 DEF BackedInv, SettledIsBacked
  <1> QED
    BY <1>2 DEF Covers, MemosDistinct

(* A call that works on a payment for its order goes on until the order is *)
(* no longer pending: nothing refuses it.                                  *)
LEMMA CallKeepsWorking ==
  ASSUME BackedInv, MemosDistinct, NEW c \in Callers, CallStep(c),
         NEW o \in Orders, NEW t, Covers(t, o), WorksOn(c, o, t)
  PROVE  WorksOn(c, o, t)' \/ order'[o].paymentStatus # "PENDING"
  <1>0. /\ call \in [Callers -> Call] /\ order \in [Orders -> OrderRow]
        /\ call[c].order = o /\ call[c].tx = t
        /\ ~HeldByAnother(t, o)
    BY CoveredIsFree DEF BackedInv, TypeOK, WorksOn
  <1>1. CASE Verify(c)
    <2>1. Confirms(call[c].tx, call[c].order)
      BY <1>0 DEF Covers, Confirms, VerifyPayment
    <2>2. call' = [call EXCEPT ![c].at = "verified"]
      BY <1>0, <1>1, <2>1 DEF Verify
    <2> QED
      BY <1>0, <2>2 DEF WorksOn, Call
  <1>2. CASE Write(c)
    BY <1>0, <1>2 DEF Write, WorksOn, Call
  <1>3. CASE CommitRefused(c)
    BY <1>0, <1>3 DEF CommitRefused, TxHashFree
  <1>4. CASE Commit(c)
    <2>1. order' = [order EXCEPT ![o].paymentStatus = "PAID",
                                 ![o].stellarTxHash = t, ![o].saleIn = @ + 1]
      BY <1>0, <1>4 DEF Commit
    <2> QED
      BY <1>0, <2>1 DEF OrderRow
  <1> QED
    BY <1>1, <1>2, <1>3, <1>4
       DEF CallStep, WorksOn, ReadMissing, AddJob, AddReward, FastPathRead,
           FastPathPost, FastPathRecord, IsNext

(* A poll job that rests keeps its page covered if its call works on.      *)
LEMMA PollKept ==
  ASSUME BackedInv, TypeOK', [Next]_vars, NEW p \in Pollers, PollCovers(p),
         poll'[p] = poll[p],
         \A o \in Pending' : \A t : Covers(t, o) /\ WorksOn(p, o, t) => WorksOn(p, o, t)'
  PROVE  PollCovers(p)'
  <1>1. poll[p].next \in 0..Len(chain) /\ Len(chain) \in Nat
    BY ChainGrows DEF BackedInv, TypeOK
  <1>2. SUFFICES ASSUME NEW o \in Pending', NEW t \in 1..poll[p].next, Covers(t, o)'
                 PROVE  \/ poll[p].at = "fetched" /\ t \in poll[p].seen
                        \/ /\ poll[p].at = "advancing"
                           /\ <<o, t>> \in poll[p].todo \/ WorksOn(p, o, t)'
    BY DEF PollCovers
  <1>3. t \in 1..Len(chain)
    BY <1>1
  <1>4. o \in Pending /\ Covers(t, o)
    BY <1>2, <1>3, CoveredBefore
  <1> QED
    BY <1>4 DEF PollCovers

(* A poll job fetches its page: what is before it is already handled.      *)
LEMMA FetchCovers ==
  ASSUME BackedInv, CursorCovers, NEW p \in Pollers, PollFetch(p, {})
  PROVE  PollCovers(p)'
  <1>1. /\ cursor \in Nat /\ Len(chain) \in Nat /\ poll \in [Pollers -> Poll]
    BY LenProperties DEF BackedInv, TypeOK
  <1>2. /\ poll'[p] = [at |-> "fetched", seen |-> (cursor + 1 .. Len(chain)) \ {},
                       next |-> Len(chain), todo |-> {}]
        /\ UNCHANGED <<chain, order>>
    BY <1>1 DEF PollFetch, PageEnd
  <1>3. SUFFICES ASSUME NEW o \in Pending', NEW t \in 1..Len(chain), Covers(t, o)'
                 PROVE  t \in poll'[p].seen
    BY <1>2 DEF PollCovers
  <1>4. o \in Orders /\ order[o].paymentStatus = "PENDING" /\ Covers(t, o)
    BY <1>2, <1>3 DEF Pending, Covers
  <1>5. ~(t \in 1..cursor)
    BY <1>4 DEF CursorCovers
  <1> QED
    BY <1>1, <1>2, <1>5

(* It matches its page against the orders that are pending now.            *)
LEMMA MatchCovers ==
  ASSUME BackedInv, MemosDistinct, NEW p \in Pollers, PollCovers(p), PollMatch(p)
  PROVE  PollCovers(p)'
  <1>1. poll \in [Pollers -> Poll] /\ poll[p].at = "fetched"
    BY DEF BackedInv, TypeOK, PollMatch
  <1>2. PICK owners \in SUBSET Pending :
          /\ OnePerMemo(owners)
          /\ poll' = [poll EXCEPT ![p].at = "advancing",
                                  ![p].todo = Matched(owners, poll[p].seen)]
    BY DEF PollMatch
  <1>3. /\ poll'[p].at = "advancing" /\ poll'[p].next = poll[p].next
        /\ poll'[p].todo = Matched(owners, poll[p].seen)
        /\ UNCHANGED <<chain, order>>
    BY <1>1, <1>2 DEF PollMatch, Poll
  <1>4. SUFFICES ASSUME NEW o \in Pending, NEW t \in 1..poll[p].next, Covers(t, o)
                 PROVE  <<o, t>> \in Matched(owners, poll[p].seen)
    BY <1>3 DEF PollCovers, Pending, Covers
  <1>5. t \in poll[p].seen
    BY <1>1, <1>4 DEF PollCovers
  <1>6. o \in owners
    BY <1>2 DEF OnePerMemo, MemosDistinct, Pending
  <1> QED
    BY <1>4, <1>5, <1>6 DEF Matched, Covers

(* It hands a match over to verifyAndAdvanceOrder.                         *)
LEMMA AdvanceCovers ==
  ASSUME BackedInv, NEW p \in Pollers, PollCovers(p), PollAdvance(p)
  PROVE  PollCovers(p)'
  <1>1. /\ poll \in [Pollers -> Poll] /\ call \in [Callers -> Call]
        /\ p \in Callers
        /\ poll[p].at = "advancing" /\ call[p].at = "idle"
    BY DEF BackedInv, TypeOK, PollAdvance, Callers
  <1>2. PICK m \in poll[p].todo :
          Begin(p, m[1], m[2]) /\ poll' = [poll EXCEPT ![p].todo = @ \ {m}]
    BY DEF PollAdvance
  <1>3. /\ poll'[p].at = "advancing" /\ poll'[p].next = poll[p].next
        /\ poll'[p].todo = poll[p].todo \ {m}
        /\ UNCHANGED <<chain, order>>
    BY <1>1, <1>2 DEF PollAdvance, Poll
  <1>4. SUFFICES ASSUME NEW o \in Pending, NEW t \in 1..poll[p].next, Covers(t, o)
                 PROVE  <<o, t>> \in poll'[p].todo \/ WorksOn(p, o, t)'
    BY <1>3 DEF PollCovers, Pending, Covers
  <1>5. <<o, t>> \in poll[p].todo
    BY <1>1, <1>4 DEF PollCovers, WorksOn
  <1>6. CASE m = <<o, t>>
    <2>1. order[o].paymentStatus # "PAID"
      BY <1>4 DEF Pending
    <2>2. /\ call'[p].at = "read" /\ call'[p].order = o /\ call'[p].tx = t
      BY <1>1, <1>2, <1>6, <2>1 DEF Begin, NoCall
    <2> QED
      BY <2>2 DEF WorksOn
  <1> QED
    BY <1>3, <1>5, <1>6

(* It stores its cursor when nothing of its page is left to be done.       *)
LEMMA DoneCovers ==
  ASSUME BackedInv, NEW p \in Pollers, PollCovers(p), PollDone(p)
  PROVE  CursorCovers' /\ PollCovers(p)'
  <1>1. /\ poll \in [Pollers -> Poll] /\ poll[p].next \in Nat
        /\ UNCHANGED <<chain, order, call>>
        /\ poll[p].at = "advancing" /\ call[p].at = "idle" /\ poll[p].todo = {}
        /\ cursor' = poll[p].next /\ poll'[p] = NoPoll
    BY DEF BackedInv, TypeOK, PollDone, NewCursor, Poll
  <1>2. CursorCovers'
    BY <1>1 DEF PollCovers, CursorCovers, WorksOn, Covers, Pending
  <1>3. PollCovers(p)'
    BY <1>1 DEF PollCovers, NoPoll
  <1> QED
    BY <1>2, <1>3

(* The steps of others leave a poll job alone, and its call too unless it  *)
(* is the call's own step.                                                 *)
LEMMA OthersPoll ==
  ASSUME BackedInv, MemosDistinct, [Next]_vars, faults' = 0, NEW p \in Pollers,
         ~PollFetch(p, {}), ~PollMatch(p), ~PollAdvance(p), ~PollDone(p)
  PROVE  /\ poll'[p] = poll[p]
         /\ \A o \in Pending' : \A t :
              Covers(t, o) /\ WorksOn(p, o, t) => WorksOn(p, o, t)'
  <1>0. /\ call \in [Callers -> Call] /\ poll \in [Pollers -> Poll]
        /\ p \in Callers /\ faults \in Nat
    BY ConstantsAssumption DEF BackedInv, TypeOK, Callers, ConstantsAssumption
  <1> DEFINE Goal == /\ poll'[p] = poll[p]
                     /\ \A o \in Pending' : \A t :
                          Covers(t, o) /\ WorksOn(p, o, t) => WorksOn(p, o, t)'
  <1>1. ASSUME poll'[p] = poll[p], call'[p] = call[p] PROVE Goal
    BY <1>1 DEF WorksOn
  <1>2. ASSUME poll'[p] = poll[p], call[p].at = "idle" PROVE Goal
    BY <1>2 DEF WorksOn
  <1>3. ~Fault
    BY <1>0 DEF Fault
  <1>4. ASSUME NEW c \in Callers, CallStep(c) PROVE Goal
    <2>1. UNCHANGED poll
      BY <1>4, CallStepFrame
    <2>2. CASE c # p
      <3>1. \A d \in Callers \ {c} : call'[d] = call[d]
        BY <1>4, CommitDue, NoCommitNoReward DEF BackedInv
      <3> QED
        BY <1>0, <1>1, <2>1, <2>2, <3>1
    <2>3. CASE c = p
      <3> SUFFICES ASSUME NEW o \in Pending', NEW t, Covers(t, o), WorksOn(p, o, t)
                   PROVE  WorksOn(p, o, t)'
        BY <2>1
      <3>1. o \in Orders /\ order'[o].paymentStatus = "PENDING"
        BY DEF Pending
      <3> QED
        BY <1>4, <2>3, <3>1, CallKeepsWorking
    <2> QED
      BY <2>2, <2>3
  <1>5. ASSUME NEW c \in Requests, NEW o, NEW t, Submit(c, o, t) PROVE Goal
    <2>1. /\ UNCHANGED poll /\ call[c].at = "idle"
          /\ \A d \in Callers \ {c} : call'[d] = call[d]
      BY <1>0, <1>5 DEF Submit, Begin
    <2>2. CASE c = p
      BY <1>2, <2>1, <2>2
    <2>3. CASE c # p
      BY <1>0, <1>1, <2>1, <2>3
    <2> QED
      BY <2>2, <2>3
  <1>6. ASSUME NEW w \in Pollers, PollStep(w) PROVE Goal
    <2>1. w # p
      BY <1>6 DEF PollStep
    <2>2. /\ \A v \in Pollers \ {w} : poll'[v] = poll[v]
      BY <1>0, <1>6 DEF PollStep, PollFetch, PollMatch, PollAdvance, PollDone
    <2>3. \A d \in Callers \ {w} : call'[d] = call[d]
      BY <1>0, <1>6 DEF PollStep, PollFetch, PollMatch, PollAdvance, PollDone, Begin
    <2> QED
      BY <1>0, <1>1, <2>1, <2>2, <2>3
  <1>7. ~Failure
    <2>1. ASSUME NEW w, NEW lost \in (SUBSET (1..MaxPayments)) \ {{}}
          PROVE  ~PollFetch(w, lost)
      <3>1. lost # {}
        OBVIOUS
      <3>2. PollFetch(w, lost) => lost = {} \/ Fault
        BY Zenon DEF PollFetch
      <3> QED
        BY <1>3, <3>1, <3>2
    <2>2. \A w : ~PollFails(w) /\ ~CallFails(w) /\ ~WebhookDeliveredFails(w)
      BY <1>3 DEF PollFails, CallFails, WebhookDeliveredFails
    <2>3. \A q, o : ~JobFails(q, o) /\ ~Evict(q, o)
      BY <1>3 DEF JobFails, Evict
    <2> QED
      BY <2>1, <2>2, <2>3 DEF Failure
  <1>8. CASE UNCHANGED <<poll, call>>
    BY <1>1, <1>8
  <1>9. ASSUME NEW o \in Orders, PayoutStep(o) \/ WebhookStep(o) \/ RefundStep(o)
        PROVE  Goal
    BY <1>8, <1>9, WorkerStepFrame
  <1>10. CASE \/ \E memo \in Memos, amount \in Amounts : Pay(memo, amount)
              \/ \E w \in Players : Bind(w)
              \/ UNCHANGED vars
    BY <1>8, <1>10 DEF Pay, Bind, vars
  <1>11. Goal
    BY <1>4, <1>5, <1>6, <1>7, <1>9, <1>10 DEF Next
  <1> QED
    BY <1>11

(* While nothing fails, every step keeps the cursor behind what is handled. *)
LEMMA NextCursor ==
  ASSUME MemosDistinct, CursorInv, [Next]_vars
  PROVE  CursorInv'
  <1>0. BackedInv /\ BackedInv' /\ TypeOK' /\ TypeOK
    BY NextBacked DEF CursorInv, BackedInv
  <1> SUFFICES ASSUME faults' = 0
               PROVE  CursorCovers' /\ \A p \in Pollers : PollCovers(p)'
    BY <1>0 DEF CursorInv
  <1>1. faults = 0 /\ CursorCovers /\ \A p \in Pollers : PollCovers(p)
    <2>1. faults' >= faults /\ faults \in Nat
      BY <1>0, FaultsGrow
    <2> QED
      BY <2>1 DEF CursorInv
  <1>2. ASSUME NEW p \in Pollers PROVE PollCovers(p)'
    <2>1. CASE PollFetch(p, {})
      BY <1>0, <1>1, <2>1, FetchCovers
    <2>2. CASE PollMatch(p)
      BY <1>0, <1>1, <2>2, MatchCovers
    <2>3. CASE PollAdvance(p)
      BY <1>0, <1>1, <2>3, AdvanceCovers
    <2>4. CASE PollDone(p)
      BY <1>0, <1>1, <2>4, DoneCovers
    <2>5. CASE ~PollFetch(p, {}) /\ ~PollMatch(p) /\ ~PollAdvance(p) /\ ~PollDone(p)
      <3>1. /\ poll'[p] = poll[p]
            /\ \A o \in Pending' : \A t :
                 Covers(t, o) /\ WorksOn(p, o, t) => WorksOn(p, o, t)'
        BY <1>0, <2>5, OthersPoll
      <3> QED
        BY <1>0, <1>1, <3>1, PollKept
    <2> QED
      BY <2>1, <2>2, <2>3, <2>4, <2>5
  <1>3. CursorCovers'
    <2>1. CASE \E p \in Pollers : PollDone(p)
      BY <1>0, <1>1, <2>1, DoneCovers
    <2>2. CASE ~\E p \in Pollers : PollDone(p)
      <3>1. cursor' = cursor
        BY <1>0, <2>2, CursorMoves
      <3>2. cursor \in 0..Len(chain) /\ Len(chain) \in Nat
        BY <1>0, ChainGrows DEF TypeOK
      <3> SUFFICES ASSUME NEW o \in Orders, NEW t \in 1..cursor, Covers(t, o)',
                          order'[o].paymentStatus = "PENDING"
                   PROVE  FALSE
        BY <3>1 DEF CursorCovers
      <3>3. t \in 1..Len(chain) /\ o \in Pending'
        BY <3>2 DEF Pending
      <3>4. o \in Pending /\ Covers(t, o)
        BY <1>0, <3>3, CoveredBefore
      <3> QED
        BY <1>1, <3>4 DEF CursorCovers, Pending
    <2> QED
      BY <2>1, <2>2
  <1> QED
    BY <1>2, <1>3

(* Initially there is no payment to miss.                                  *)
LEMMA InitCursor == Init => CursorInv
  <1> SUFFICES ASSUME Init PROVE CursorInv
    OBVIOUS
  <1>1. CursorCovers
    BY DEF Init, CursorCovers
  <1>2. \A p \in Pollers : PollCovers(p)
    BY DEF Init, PollCovers, NoPoll
  <1> QED
    BY <1>1, <1>2, InitBacked DEF CursorInv

(* When the orders have memos of their own: however many poll jobs overlap *)
(* and move the cursor back and forth, and whoever else settles orders     *)
(* meanwhile, no payment behind the cursor covers an order still PENDING,  *)
(* as long as no fetch, no call and no job has failed.                     *)
THEOREM CursorCorrect ==
  ASSUME MemosDistinct
  PROVE  Spec => [](faults = 0 => CursorCovers)
  <1>1. CursorInv /\ [Next]_vars => CursorInv'
    BY NextCursor
  <1>2. CursorInv => (faults = 0 => CursorCovers)
    BY DEF CursorInv
  <1> QED
    BY <1>1, <1>2, InitCursor, PTL DEF Spec

================================================================================
