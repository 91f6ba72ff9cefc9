------------------------------- MODULE OrderPage --------------------------------
(***************************************************************************)
(* The checkout page and how it follows an order: quotes and coupons, the  *)
(* wallet, the event stream with its reconnect timer, the poll, and the    *)
(* answers to submit; on the server, the stream handler, the Redis channel *)
(* that all streams of an order share, and the events that are published.  *)
(*                                                                         *)
(* A round is one run of the page's effect: it asks for a quote, and the   *)
(* quote of round n has order n.  A stream, a timer and a poll belong to   *)
(* an order.  FAILED and REFUNDED, which nothing publishes, are left out,  *)
(* and so is a wallet without a trustline, which ends the click on "pay".  *)
(***************************************************************************)
EXTENDS Naturals, Sequences, FiniteSets

CONSTANTS
  MaxRounds,     \* bound: runs of the effect
  MaxMessages,   \* bound: messages in a stream that the page has not read
  MaxAnswers,    \* bound: answers under way
  MaxPayments    \* bound: payments that are started and not declined

\* A stream holds at least the snapshot that it begins with.
ASSUME OrderPageAssumption ==
  /\ MaxRounds \in Nat \ {0} /\ MaxMessages \in Nat \ {0}
  /\ MaxAnswers \in Nat /\ MaxPayments \in Nat

VARIABLES
  order,       \* the status of each order
  paid,        \* the orders paid on chain
  subscribed,  \* the channels that the web process is subscribed to
  cancels,     \* streams that the client has closed and the server has not
  stream,      \* the EventSource of each order
  timer,       \* the reconnect timers
  poll,        \* the poll intervals
  answers,     \* answers to polls and submits under way
  page

vars == <<order, paid, subscribed, cancels, stream, timer, poll, answers, page>>

server == <<order, paid, subscribed, cancels>>

Orders == 1..MaxRounds
NoOrder == 0

Status == {"pending", "paid", "delivered"}
PaymentStatus(s) == IF s = "pending" THEN "PENDING" ELSE "PAID"
DeliveryStatus(s) == IF s = "delivered" THEN "DELIVERED" ELSE "PENDING"

\* An event carries the field that changed, a snapshot both.
Message == [snapshot : BOOLEAN, status : Status]
Answer == [order : Orders, status : Status, polled : BOOLEAN]
Stream == [at : {"closed", "requested", "listening", "open"}, inbox : Seq(Message)]
Display == [paymentStatus : {"PENDING", "PAID"}, deliveryStatus : {"PENDING", "DELIVERED"}]

NoRound == 0

\* "quoting" are the rounds without an answer, "quote" the order that the page shows,
\* "paying" the orders whose payments wait for Freighter.
Page == [round : Orders \cup {NoRound}, quoting : SUBSET Orders,
         quote : Orders \cup {NoOrder}, display : Display, paying : SUBSET Orders]

Pending == [paymentStatus |-> "PENDING", deliveryStatus |-> "PENDING"]
NoStream == [at |-> "closed", inbox |-> <<>>]

Init ==
  /\ order = [o \in Orders |-> "pending"] /\ paid = {}
  /\ subscribed = {} /\ cancels = {}
  /\ stream = [o \in Orders |-> NoStream]
  /\ timer = {} /\ poll = {} /\ answers = {}
  /\ page = [round |-> 1, quoting |-> {1}, quote |-> NoOrder, display |-> Pending,
             paying |-> {}]

--------------------------------------------------------------------------------
(* Quotes                                                                  *)

\* Open streams are closed at once here and some time later on the server.
Open == {o \in Orders : stream[o].at # "closed"}
Cancelling == cancels \cup {o \in Open : stream[o].at # "requested"}

Mounted == page.round # NoRound

\* The effect cleans up after itself.  Requests that are under way go on.
CleanUp ==
  /\ stream' = [o \in Orders |-> NoStream]
  /\ cancels' = Cancelling
  /\ timer' = {} /\ poll' = {}
  /\ UNCHANGED <<order, paid, subscribed, answers>>

\* It runs again.
NextRound(quoting) ==
  /\ Mounted /\ page.round < MaxRounds
  /\ page' = [page EXCEPT !.round = @ + 1, !.quoting = quoting \cup {page.round + 1}]
  /\ CleanUp

\* A coupon is applied, or the applied one cleared; every second round has one.
ChangeCoupon == NextRound(page.quoting)

\* The buyer leaves the page, whose quotes and payments under way go on.
Unmount ==
  /\ Mounted
  /\ page' = [page EXCEPT !.round = NoRound]
  /\ CleanUp

HasCoupon(round) == round % 2 = 0

\* Mutant: the stream of the quote before stays open.
LeaveStream(o) ==
  /\ stream' = [stream EXCEPT ![o] = [at |-> "requested", inbox |-> <<>>]]
  /\ cancels' = cancels
  /\ timer' = {}

\* connectEvents closes the stream there is and clears the timer.
ConnectEvents(o) ==
  /\ stream' = [p \in Orders |-> IF p = o THEN [at |-> "requested", inbox |-> <<>>] ELSE NoStream]
  /\ cancels' = Cancelling
  /\ timer' = {}

(* A quote arrives, also one that a later round has overtaken, or when the *)
(* buyer has left: the page shows it and follows its order.                *)
ReceiveQuote(o) ==
  /\ o \in page.quoting
  /\ page' = [page EXCEPT !.quoting = @ \ {o}, !.quote = o, !.display = Pending]
  /\ ConnectEvents(o)
  /\ poll' = {o}
  /\ UNCHANGED <<order, paid, subscribed, answers>>

QuoteFails(o) ==
  /\ o \in page.quoting
  /\ page' = [page EXCEPT !.quoting = @ \ {o}]
  /\ UNCHANGED <<server, stream, timer, poll, answers>>

\* The answer that a code is invalid clears the coupon, whichever it is by now.
QuoteInvalid(o) ==
  /\ o \in page.quoting /\ HasCoupon(o) /\ HasCoupon(page.round)
  /\ NextRound(page.quoting \ {o})

--------------------------------------------------------------------------------
(* The wallet                                                              *)

\* A click pays the quote that is shown, also while Freighter has an earlier payment.
Pay ==
  /\ Mounted /\ page.quote # NoOrder
  /\ Cardinality(paid \cup page.paying) < MaxPayments
  /\ page' = [page EXCEPT !.paying = @ \cup {page.quote}]
  /\ UNCHANGED <<server, stream, timer, poll, answers>>

\* Mutant: a submitted payment is shown as paid.
SignAndShow(o) ==
  /\ o \in page.paying
  /\ paid' = paid \cup {o}
  /\ page' = [page EXCEPT !.paying = @ \ {o}, !.display.paymentStatus = "PAID"]
  /\ UNCHANGED <<order, subscribed, cancels, stream, timer, poll, answers>>

\* Freighter signs the payment of the quote that was shown at the click, or declines.
Sign(o) ==
  /\ o \in page.paying
  /\ paid' = paid \cup {o}
  /\ page' = [page EXCEPT !.paying = @ \ {o}]
  /\ UNCHANGED <<order, subscribed, cancels, stream, timer, poll, answers>>

Decline(o) ==
  /\ o \in page.paying
  /\ page' = [page EXCEPT !.paying = @ \ {o}]
  /\ UNCHANGED <<server, stream, timer, poll, answers>>

--------------------------------------------------------------------------------
(* The server                                                              *)

\* Every stream that listens has the event, if the process is subscribed.
Publish(o, status) ==
  stream' = IF o \in subscribed /\ stream[o].at \in {"listening", "open"}
                 /\ Len(stream[o].inbox) < MaxMessages
              THEN [stream EXCEPT ![o].inbox = Append(@, [snapshot |-> FALSE, status |-> status])]
              ELSE stream

(* An order that is paid on chain is settled, and delivered later; each    *)
(* change is published when it is committed, or the event is lost.         *)
Advance(o) ==
  /\ \/ order[o] = "pending" /\ o \in paid /\ order' = [order EXCEPT ![o] = "paid"]
     \/ order[o] = "paid" /\ order' = [order EXCEPT ![o] = "delivered"]
  /\ Publish(o, order'[o]) \/ UNCHANGED stream
  /\ UNCHANGED <<paid, subscribed, cancels, timer, poll, answers, page>>

\* The handler reads the order and sends what it has read; the listener is attached ...
HandleEvents(o) ==
  /\ stream[o].at = "requested"
  /\ stream' = [stream EXCEPT ![o] =
       [at |-> "listening", inbox |-> <<[snapshot |-> TRUE, status |-> order[o]]>>]]
  /\ UNCHANGED <<server, timer, poll, answers, page>>

\* ... and then the process subscribes.
Subscribe(o) ==
  /\ stream[o].at = "listening"
  /\ stream' = [stream EXCEPT ![o].at = "open"]
  /\ subscribed' = subscribed \cup {o}
  /\ UNCHANGED <<order, paid, cancels, timer, poll, answers, page>>

\* cancel() of a closed stream unsubscribes, also for a newer stream of the order.
Cancel(o) ==
  /\ o \in cancels
  /\ cancels' = cancels \ {o}
  /\ subscribed' = subscribed \ {o}
  /\ UNCHANGED <<order, paid, stream, timer, poll, answers, page>>

--------------------------------------------------------------------------------
(* What the page hears                                                     *)

\* An event leaves what is shown of the other field.
Shown(display, message) ==
  [paymentStatus |-> IF message.snapshot \/ message.status = "paid"
                       THEN PaymentStatus(message.status) ELSE display.paymentStatus,
   deliveryStatus |-> IF message.snapshot \/ message.status = "delivered"
                        THEN DeliveryStatus(message.status) ELSE display.deliveryStatus]

\* onmessage; DELIVERED ends the stream.
OnMessage(o) ==
  LET message == Head(stream[o].inbox) IN
  /\ stream[o].inbox # <<>>
  /\ page' = [page EXCEPT !.display = Shown(@, message)]
  /\ IF message.status = "delivered"
       THEN /\ stream' = [stream EXCEPT ![o] = NoStream]
            /\ cancels' = cancels \cup {o}
            /\ timer' = {}
       ELSE /\ stream' = [stream EXCEPT ![o].inbox = Tail(@)]
            /\ UNCHANGED <<cancels, timer>>
  /\ UNCHANGED <<order, paid, subscribed, poll, answers>>

\* onerror: the connection dropped, and a new one follows in a second.
OnError(o) ==
  /\ o \in Open
  /\ stream' = [stream EXCEPT ![o] = NoStream]
  /\ cancels' = IF stream[o].at = "requested" THEN cancels ELSE cancels \cup {o}
  /\ timer' = timer \cup {o}
  /\ UNCHANGED <<order, paid, subscribed, poll, answers, page>>

Reconnect(o) ==
  /\ o \in timer
  /\ ConnectEvents(o)
  /\ UNCHANGED <<order, paid, subscribed, poll, answers, page>>

Ask(o, polled) ==
  /\ Cardinality(answers) < MaxAnswers
  /\ answers' = answers \cup {[order |-> o, status |-> order[o], polled |-> polled]}
  /\ UNCHANGED <<server, stream, timer, poll, page>>

\* Mutant: a page with a stream does not poll.
PollWithoutStream(o) == o \in poll /\ Open = {} /\ Ask(o, TRUE)

\* Every two seconds the order is read; the answer takes its time.
PollOrder(o) == o \in poll /\ Ask(o, TRUE)

\* submitPayment sends again and again, up to a limit; the module Submission has the details.
Submit(o) == o \in paid /\ Ask(o, FALSE)

(* An answer is shown, whatever quote the page shows by now, and the poll  *)
(* that learns of the delivery clears the interval there is.               *)
ReceiveAnswer(a) ==
  /\ a \in answers
  /\ answers' = answers \ {a}
  /\ page' = [page EXCEPT !.display = [paymentStatus |-> PaymentStatus(a.status),
                                       deliveryStatus |-> DeliveryStatus(a.status)]]
  /\ poll' = IF a.polled /\ a.status = "delivered" THEN {} ELSE poll
  /\ UNCHANGED <<server, stream, timer>>

LoseAnswer(a) ==
  /\ a \in answers
  /\ answers' = answers \ {a}
  /\ UNCHANGED <<server, stream, timer, poll, page>>

--------------------------------------------------------------------------------
Next ==
  \/ ChangeCoupon \/ Unmount \/ Pay
  \/ \E o \in Orders :
       \/ ReceiveQuote(o) \/ QuoteFails(o) \/ QuoteInvalid(o)
       \/ Sign(o) \/ Decline(o)
       \/ Advance(o) \/ HandleEvents(o) \/ Subscribe(o) \/ Cancel(o)
       \/ OnMessage(o) \/ OnError(o) \/ Reconnect(o) \/ PollOrder(o) \/ Submit(o)
  \/ \E a \in answers : ReceiveAnswer(a) \/ LoseAnswer(a)

Arrives == \E a \in answers : ReceiveAnswer(a) \/ LoseAnswer(a)
Learns == \E a \in answers : a.polled /\ a.status = "delivered" /\ ReceiveAnswer(a)

(* The interval fires again and again, answers arrive or are lost, and not *)
(* all that learn of a delivery are lost.  The stream promises nothing.    *)
Fairness ==
  SF_vars(\E o \in Orders : PollOrder(o)) /\ WF_vars(Arrives) /\ SF_vars(Learns)

Spec == Init /\ [][Next]_vars /\ Fairness

================================================================================
