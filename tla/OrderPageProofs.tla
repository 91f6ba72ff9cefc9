---------------------------- MODULE OrderPageProofs -----------------------------
(***************************************************************************)
(* The checkout page follows one order at a time, and never shows what has *)
(* not happened, for any number of quotes, messages, answers and payments. *)
(***************************************************************************)
EXTENDS OrderPageCorrectness, SequenceTheorems, TLAPS

--------------------------------------------------------------------------------
(* Streams                                                                 *)

(* Streams of their type, with no more messages than a stream holds.       *)
StreamsOK(s) == /\ s \in [Orders -> Stream]
                /\ \A o \in Orders : Len(s[o].inbox) <= MaxMessages

(* A closed stream is one.                                                 *)
LEMMA NoStreamType == NoStream \in Stream /\ Len(NoStream.inbox) = 0
  BY EmptySeq DEF NoStream, Stream

(* Closing all streams, but for a new one, leaves streams.                 *)
LEMMA ClosedStreams ==
  ASSUME NEW s, NEW o,
         s = [p \in Orders |-> IF p = o THEN [at |-> "requested", inbox |-> <<>>]
                               ELSE NoStream]
  PROVE  StreamsOK(s)
  <1>1. [at |-> "requested", inbox |-> <<>>] \in Stream
    BY EmptySeq DEF Stream
  <1>2. MaxMessages >= 0
    BY OrderPageAssumption DEF OrderPageAssumption
  <1> QED
    BY <1>1, <1>2, NoStreamType DEF StreamsOK

(* So does a stream that opens, closes, or is read.                        *)
LEMMA StreamChanges ==
  ASSUME StreamsOK(stream), NEW o \in Orders, NEW x \in Stream,
         Len(x.inbox) <= MaxMessages
  PROVE  StreamsOK([stream EXCEPT ![o] = x])
  BY DEF StreamsOK

(* A message more, where there is room for it.                             *)
LEMMA AppendStream ==
  ASSUME StreamsOK(stream), NEW o \in Orders, NEW m \in Message,
         Len(stream[o].inbox) < MaxMessages
  PROVE  StreamsOK([stream EXCEPT ![o].inbox = Append(@, m)])
  <1>1. /\ stream[o].inbox \in Seq(Message) /\ stream[o] \in Stream
        /\ MaxMessages \in Nat
    BY OrderPageAssumption DEF StreamsOK, Stream, OrderPageAssumption
  <1>2. /\ Append(stream[o].inbox, m) \in Seq(Message)
        /\ Len(Append(stream[o].inbox, m)) = Len(stream[o].inbox) + 1
        /\ Len(stream[o].inbox) \in Nat
    BY <1>1, AppendProperties, LenProperties
  <1>3. PICK x : x = [stream[o] EXCEPT !.inbox = Append(stream[o].inbox, m)]
    OBVIOUS
  <1>4. x \in Stream /\ x.inbox = Append(stream[o].inbox, m)
    BY <1>1, <1>2, <1>3 DEF Stream
  <1>5. [stream EXCEPT ![o].inbox = Append(@, m)] = [stream EXCEPT ![o] = x]
    BY <1>1, <1>3 DEF StreamsOK
  <1> QED
    BY <1>1, <1>2, <1>4, <1>5, StreamChanges

(* A message less.                                                         *)
LEMMA TailStream ==
  ASSUME StreamsOK(stream), NEW o \in Orders, stream[o].inbox # <<>>
  PROVE  StreamsOK([stream EXCEPT ![o].inbox = Tail(@)])
  <1>1. /\ stream[o].inbox \in Seq(Message) /\ stream[o] \in Stream
        /\ MaxMessages \in Nat /\ Len(stream[o].inbox) <= MaxMessages
    BY OrderPageAssumption DEF StreamsOK, Stream, OrderPageAssumption
  <1>2. /\ Tail(stream[o].inbox) \in Seq(Message)
        /\ Len(Tail(stream[o].inbox)) = Len(stream[o].inbox) - 1
        /\ Len(stream[o].inbox) \in Nat
    BY <1>1, HeadTailProperties, LenProperties
  <1>3. PICK x : x = [stream[o] EXCEPT !.inbox = Tail(stream[o].inbox)]
    OBVIOUS
  <1>4. x \in Stream /\ x.inbox = Tail(stream[o].inbox)
    BY <1>1, <1>2, <1>3 DEF Stream
  <1>5. [stream EXCEPT ![o].inbox = Tail(@)] = [stream EXCEPT ![o] = x]
    BY <1>1, <1>3 DEF StreamsOK
  <1>6. Len(x.inbox) <= MaxMessages
    BY <1>1, <1>2, <1>4
  <1> QED
    BY <1>4, <1>5, <1>6, StreamChanges

(* The snapshot that a stream begins with.                                 *)
LEMMA SnapshotStream ==
  ASSUME StreamsOK(stream), NEW o \in Orders, NEW m \in Message
  PROVE  StreamsOK([stream EXCEPT ![o] = [at |-> "listening", inbox |-> <<m>>]])
  <1>1. <<m>> \in Seq(Message) /\ Len(<<m>>) = 1
    OBVIOUS
  <1>2. MaxMessages >= 1
    BY OrderPageAssumption DEF OrderPageAssumption
  <1>3. PICK x : x = [at |-> "listening", inbox |-> <<m>>]
    OBVIOUS
  <1>4. x \in Stream /\ Len(x.inbox) <= MaxMessages
    BY <1>1, <1>2, <1>3 DEF Stream
  <1> QED
    BY <1>3, <1>4, StreamChanges

(* Streams that only move on or away belong to the orders they did.        *)
OpenKept == \A o \in Orders :
              stream'[o].at # "closed" => stream[o].at # "closed"

--------------------------------------------------------------------------------
(* The effect runs again: nothing is followed until the next quote.        *)
LEMMA CleanUpFollows ==
  ASSUME FollowsQuote, CleanUp, page' \in Page
  PROVE  FollowsQuote'
  <1>1. StreamsOK(stream')
    <2>1. stream' = [p \in Orders |-> IF p = NoOrder THEN [at |-> "requested", inbox |-> <<>>]
                                      ELSE NoStream]
      BY DEF CleanUp, NoOrder, Orders
    <2> QED
      BY <2>1, ClosedStreams
  <1>2. Cancelling \subseteq Orders
    BY DEF FollowsQuote, TypeOK, Cancelling, Open
  <1>3. TypeOK'
    BY <1>1, <1>2 DEF FollowsQuote, TypeOK, CleanUp, StreamsOK
  <1>4. Open' = {}
    BY DEF CleanUp, Open, NoStream
  <1> QED
    BY <1>3, <1>4 DEF FollowsQuote, CleanUp

(* So it is when the effect runs again, and when the page is left.         *)
LEMMA NextRoundFollows ==
  ASSUME FollowsQuote, \/ Unmount
                       \/ \E quoting \in SUBSET Orders : NextRound(quoting)
  PROVE  FollowsQuote'
  <1>0. page \in Page /\ MaxRounds \in Nat
    BY OrderPageAssumption DEF FollowsQuote, TypeOK, OrderPageAssumption
  <1>1. ASSUME NEW quoting \in SUBSET Orders, NextRound(quoting)
        PROVE  page' \in Page
    <2>1. page.round # 0 /\ page.round < MaxRounds
      BY <1>1 DEF NextRound, Mounted, NoRound
    <2>2. page.round \in 1..MaxRounds
      BY <1>0, <2>1 DEF Page, Orders, NoRound
    <2>3. page.round + 1 \in 1..MaxRounds
      BY <1>0, <2>1, <2>2
    <2> QED
      BY <1>0, <1>1, <2>3 DEF NextRound, Page, Orders
  <1>2. Unmount => page' \in Page
    BY <1>0 DEF Unmount, Page
  <1> QED
    BY <1>1, <1>2, CleanUpFollows DEF NextRound, Unmount

(* A stream is opened for the order o alone.                               *)
LEMMA ConnectFollows ==
  ASSUME TypeOK, NEW o \in Orders, ConnectEvents(o)
  PROVE  StreamsOK(stream') /\ cancels' \subseteq Orders /\ timer' = {} /\ Open' \subseteq {o}
  <1>1. StreamsOK(stream')
    BY ClosedStreams DEF ConnectEvents
  <1>2. cancels' \subseteq Orders
    BY DEF TypeOK, ConnectEvents, Cancelling, Open
  <1>3. Open' \subseteq {o}
    BY DEF ConnectEvents, Open, NoStream
  <1> QED
    BY <1>1, <1>2, <1>3 DEF ConnectEvents

(* A quote that arrives replaces whatever was followed.                    *)
LEMMA ReceiveQuoteFollows ==
  ASSUME FollowsQuote, NEW o \in Orders, ReceiveQuote(o)
  PROVE  FollowsQuote'
  <1>1. /\ StreamsOK(stream') /\ cancels' \subseteq Orders /\ timer' = {}
        /\ Open' \subseteq {o}
    BY ConnectFollows DEF FollowsQuote, ReceiveQuote
  <1>2. page' \in Page /\ page'.quote = o
    BY DEF FollowsQuote, TypeOK, ReceiveQuote, Page, Pending, Display
  <1>3. TypeOK'
    BY <1>1, <1>2 DEF FollowsQuote, TypeOK, ReceiveQuote, StreamsOK
  <1> QED
    BY <1>1, <1>2, <1>3 DEF FollowsQuote, ReceiveQuote

(* A reconnect belongs to the quote that is shown.                         *)
LEMMA ReconnectFollows ==
  ASSUME FollowsQuote, NEW o \in Orders, Reconnect(o)
  PROVE  FollowsQuote'
  <1>1. /\ StreamsOK(stream') /\ cancels' \subseteq Orders /\ timer' = {}
        /\ Open' \subseteq {o}
    BY ConnectFollows DEF FollowsQuote, Reconnect
  <1>2. o = page.quote
    BY DEF FollowsQuote, Reconnect
  <1>3. TypeOK'
    BY <1>1 DEF FollowsQuote, TypeOK, Reconnect, StreamsOK
  <1> QED
    BY <1>1, <1>2, <1>3 DEF FollowsQuote, Reconnect

(* Steps of the page that touch neither streams nor timers.                *)
LEMMA PageOnlyFollows ==
  ASSUME FollowsQuote, page' \in Page, page'.quote = page.quote,
         UNCHANGED <<order, subscribed, cancels, stream, timer>>,
         paid' \subseteq Orders, poll' \subseteq poll, answers' \subseteq Answer
  PROVE  FollowsQuote'
  <1>1. TypeOK'
    BY DEF FollowsQuote, TypeOK
  <1>2. Open' = Open
    BY DEF Open
  <1> QED
    BY <1>1, <1>2 DEF FollowsQuote

(* Steps of streams that open none.                                        *)
LEMMA StreamOnlyFollows ==
  ASSUME FollowsQuote, OpenKept, StreamsOK(stream'), UNCHANGED poll,
         page' \in Page, page'.quote = page.quote,
         order' \in [Orders -> Status],
         paid' \subseteq Orders, subscribed' \subseteq Orders, cancels' \subseteq Orders,
         answers' \subseteq Answer,
         \/ timer' \subseteq timer
         \/ \E o \in Orders : /\ stream[o].at # "closed" /\ stream'[o].at = "closed"
                              /\ timer' = timer \cup {o}
  PROVE  FollowsQuote'
  <1>1. timer' \subseteq Orders
    BY DEF FollowsQuote, TypeOK
  <1>2. TypeOK'
    BY <1>1 DEF FollowsQuote, TypeOK, StreamsOK
  <1>3. Open' \subseteq Open
    BY DEF Open, OpenKept
  <1>4. CASE timer' \subseteq timer
    BY <1>2, <1>3, <1>4 DEF FollowsQuote
  <1>5. ASSUME NEW o \in Orders, stream[o].at # "closed", stream'[o].at = "closed",
               timer' = timer \cup {o}
        PROVE  FollowsQuote'
    <2>1. o \in Open /\ o \notin Open'
      BY <1>5 DEF Open
    <2>2. o = page.quote
      BY <2>1 DEF FollowsQuote
    <2> QED
      BY <1>2, <1>3, <1>5, <2>1, <2>2 DEF FollowsQuote
  <1> QED
    BY <1>4, <1>5

(* An order advances, and its streams may hear of it.                      *)
LEMMA AdvanceFollows ==
  ASSUME FollowsQuote, NEW o \in Orders, Advance(o)
  PROVE  FollowsQuote'
  <1>0. /\ StreamsOK(stream) /\ order \in [Orders -> Status]
        /\ stream \in [Orders -> Stream]
    BY DEF FollowsQuote, TypeOK, StreamsOK
  <1>1. order' \in [Orders -> Status] /\ order'[o] \in {"paid", "delivered"}
    BY <1>0 DEF Advance, Status
  <1>2. PICK m \in Message : m = [snapshot |-> FALSE, status |-> order'[o]]
    BY <1>1 DEF Message, Status
  <1>3. \/ UNCHANGED stream
        \/ /\ stream' = [stream EXCEPT ![o].inbox = Append(@, m)]
           /\ Len(stream[o].inbox) < MaxMessages
    BY <1>2 DEF Advance, Publish
  <1>4. StreamsOK(stream')
    BY <1>0, <1>3, AppendStream
  <1>5. OpenKept
    BY <1>0, <1>3 DEF OpenKept, Stream
  <1> QED
    BY <1>1, <1>4, <1>5, StreamOnlyFollows DEF FollowsQuote, TypeOK, Advance

(* The handler sends its snapshot and then subscribes.                     *)
LEMMA HandleEventsFollows ==
  ASSUME FollowsQuote, NEW o \in Orders, HandleEvents(o) \/ Subscribe(o) \/ Cancel(o)
  PROVE  FollowsQuote'
  <1>0. /\ StreamsOK(stream) /\ order \in [Orders -> Status]
        /\ stream \in [Orders -> Stream]
    BY DEF FollowsQuote, TypeOK, StreamsOK
  <1>1. CASE HandleEvents(o)
    <2>1. PICK m \in Message : m = [snapshot |-> TRUE, status |-> order[o]]
      BY <1>0 DEF Message
    <2>2. /\ stream' = [stream EXCEPT ![o] = [at |-> "listening", inbox |-> <<m>>]]
          /\ stream[o].at = "requested"
      BY <1>1, <2>1 DEF HandleEvents
    <2>3. StreamsOK(stream') /\ OpenKept
      BY <1>0, <2>2, SnapshotStream DEF OpenKept
    <2> QED
      BY <1>1, <2>3, StreamOnlyFollows DEF FollowsQuote, TypeOK, HandleEvents, server
  <1>2. CASE Subscribe(o)
    <2>1. /\ stream' = [stream EXCEPT ![o].at = "open"]
          /\ stream[o].at = "listening" /\ subscribed' = subscribed \cup {o}
          /\ UNCHANGED <<order, paid, cancels, timer, poll, answers, page>>
      BY <1>2 DEF Subscribe
    <2>2. StreamsOK(stream') /\ OpenKept
      BY <1>0, <2>1 DEF StreamsOK, Stream, OpenKept
    <2> QED
      BY <2>1, <2>2, StreamOnlyFollows DEF FollowsQuote, TypeOK
  <1>3. CASE Cancel(o)
    <2>1. /\ subscribed' = subscribed \ {o} /\ cancels' = cancels \ {o}
          /\ UNCHANGED <<order, paid, stream, timer, poll, answers, page>>
      BY <1>3 DEF Cancel
    <2>2. StreamsOK(stream') /\ OpenKept
      BY <1>0, <2>1 DEF OpenKept
    <2> QED
      BY <2>1, <2>2, StreamOnlyFollows DEF FollowsQuote, TypeOK
  <1> QED
    BY <1>1, <1>2, <1>3

(* What is shown after a message is something to show.                     *)
LEMMA ShownType ==
  ASSUME NEW display \in Display, NEW m \in Message
  PROVE  Shown(display, m) \in Display
  BY DEF Display, Message, Shown, PaymentStatus, DeliveryStatus, Status

(* The page reads a message, or its stream drops.                          *)
LEMMA HearsFollows ==
  ASSUME FollowsQuote, NEW o \in Orders, OnMessage(o) \/ OnError(o)
  PROVE  FollowsQuote'
  <1>0. /\ StreamsOK(stream) /\ page \in Page /\ stream \in [Orders -> Stream]
        /\ MaxMessages \in Nat
    BY OrderPageAssumption DEF FollowsQuote, TypeOK, StreamsOK, OrderPageAssumption
  <1>1. ASSUME stream' = [stream EXCEPT ![o] = NoStream]
        PROVE  StreamsOK(stream') /\ OpenKept /\ stream'[o].at = "closed"
    <2>1. StreamsOK(stream')
      <3>1. Len(NoStream.inbox) <= MaxMessages
        BY <1>0, NoStreamType
      <3> QED
        BY <1>0, <1>1, <3>1, NoStreamType, StreamChanges
    <2>2. OpenKept /\ stream'[o].at = "closed"
      BY <1>0, <1>1 DEF OpenKept, NoStream
    <2> QED
      BY <2>1, <2>2
  <1>2. CASE OnMessage(o)
    <2>1. PICK m \in Message : m = Head(stream[o].inbox)
      <3>1. stream[o].inbox \in Seq(Message) /\ stream[o].inbox # <<>>
        BY <1>0, <1>2 DEF OnMessage, Stream
      <3> QED
        BY <3>1, HeadTailProperties
    <2>2. page' \in Page /\ page'.quote = page.quote
      <3>1. PICK d \in Display : d = Shown(page.display, m)
        BY <1>0, <2>1, ShownType DEF Page
      <3>2. page' = [page EXCEPT !.display = d]
        BY <1>2, <2>1, <3>1 DEF OnMessage
      <3> QED
        BY <1>0, <3>2 DEF Page
    <2>3. UNCHANGED <<order, paid, subscribed, poll, answers>>
      BY <1>2 DEF OnMessage
    <2>4. CASE m.status = "delivered"
      <3>1. /\ stream' = [stream EXCEPT ![o] = NoStream]
            /\ cancels' = cancels \cup {o} /\ timer' = {}
        BY <1>2, <2>1, <2>4 DEF OnMessage
      <3> QED
        BY <1>1, <2>2, <2>3, <3>1, StreamOnlyFollows DEF FollowsQuote, TypeOK
    <2>5. CASE m.status # "delivered"
      <3>1. /\ stream' = [stream EXCEPT ![o].inbox = Tail(@)]
            /\ stream[o].inbox # <<>>
            /\ UNCHANGED <<cancels, timer>>
        BY <1>2, <2>1, <2>5 DEF OnMessage
      <3>2. StreamsOK(stream')
        BY <1>0, <3>1, TailStream
      <3>3. OpenKept
        BY <1>0, <3>1 DEF OpenKept, Stream
      <3> QED
        BY <2>2, <2>3, <3>1, <3>2, <3>3, StreamOnlyFollows DEF FollowsQuote, TypeOK
    <2> QED
      BY <2>4, <2>5
  <1>3. CASE OnError(o)
    <2>1. /\ stream' = [stream EXCEPT ![o] = NoStream]
          /\ stream[o].at # "closed" /\ timer' = timer \cup {o}
          /\ UNCHANGED <<order, paid, subscribed, poll, answers, page>>
      BY <1>3 DEF OnError, Open
    <2>2. cancels' \subseteq Orders
      BY <1>3 DEF OnError, FollowsQuote, TypeOK
    <2> QED
      BY <1>1, <2>1, <2>2, StreamOnlyFollows DEF FollowsQuote, TypeOK
  <1> QED
    BY <1>2, <1>3

(* A request is sent or answered.                                          *)
LEMMA AnswerFollows ==
  ASSUME FollowsQuote,
         \/ \E o \in Orders, polled \in BOOLEAN : Ask(o, polled)
         \/ \E a \in answers : ReceiveAnswer(a) \/ LoseAnswer(a)
  PROVE  FollowsQuote'
  <1>0. page \in Page /\ answers \subseteq Answer /\ order \in [Orders -> Status]
    BY DEF FollowsQuote, TypeOK
  <1>1. ASSUME NEW o \in Orders, NEW polled \in BOOLEAN, Ask(o, polled)
        PROVE  FollowsQuote'
    <2>1. [order |-> o, status |-> order[o], polled |-> polled] \in Answer
      BY <1>0 DEF Answer
    <2> QED
      BY <1>0, <1>1, <2>1, PageOnlyFollows DEF Ask, server, FollowsQuote, TypeOK
  <1>2. ASSUME NEW a \in answers, ReceiveAnswer(a) PROVE FollowsQuote'
    <2>1. PICK d \in Display : d = [paymentStatus |-> PaymentStatus(a.status),
                                    deliveryStatus |-> DeliveryStatus(a.status)]
      <3>1. /\ PaymentStatus(a.status) \in {"PENDING", "PAID"}
            /\ DeliveryStatus(a.status) \in {"PENDING", "DELIVERED"}
        BY DEF PaymentStatus, DeliveryStatus
      <3> QED
        BY <3>1 DEF Display
    <2>2. page' = [page EXCEPT !.display = d]
      BY <1>2, <2>1 DEF ReceiveAnswer
    <2>3. page' \in Page /\ page'.quote = page.quote
      BY <1>0, <2>2 DEF Page
    <2> QED
      BY <1>0, <1>2, <2>3, PageOnlyFollows
         DEF ReceiveAnswer, server, FollowsQuote, TypeOK
  <1>3. ASSUME NEW a \in answers, LoseAnswer(a) PROVE FollowsQuote'
    BY <1>0, <1>3, PageOnlyFollows DEF LoseAnswer, server, FollowsQuote, TypeOK
  <1> QED
    BY <1>1, <1>2, <1>3

(* The buyer, or a quote that fails.                                       *)
LEMMA BuyerFollows ==
  ASSUME FollowsQuote,
         Pay \/ \E o \in Orders : Sign(o) \/ Decline(o) \/ QuoteFails(o)
  PROVE  FollowsQuote'
  <1>0. page \in Page
    BY DEF FollowsQuote, TypeOK
  <1>1. page' \in Page /\ page'.quote = page.quote
    <2>1. CASE Pay
      BY <1>0, <2>1 DEF Pay, Page, NoOrder
    <2>2. ASSUME NEW o \in Orders, Sign(o) \/ Decline(o) \/ QuoteFails(o)
          PROVE  page' \in Page /\ page'.quote = page.quote
      BY <1>0, <2>2 DEF Sign, Decline, QuoteFails, Page
    <2> QED
      BY <2>1, <2>2
  <1>2. UNCHANGED <<order, subscribed, cancels, stream, timer, poll, answers>>
    BY DEF Pay, Sign, Decline, QuoteFails, server
  <1>3. paid' \subseteq Orders
    BY DEF FollowsQuote, TypeOK, Pay, Sign, Decline, QuoteFails, server
  <1> QED
    BY <1>1, <1>2, <1>3, PageOnlyFollows DEF FollowsQuote, TypeOK

(* Every step leaves the page following the quote it shows.                *)
LEMMA NextFollows == FollowsQuote /\ [Next]_vars => FollowsQuote'
  <1> SUFFICES ASSUME FollowsQuote, [Next]_vars PROVE FollowsQuote'
    OBVIOUS
  <1>0. page.quoting \subseteq Orders
    BY DEF FollowsQuote, TypeOK, Page
  <1>1. CASE ChangeCoupon \/ Unmount \/ \E o \in Orders : QuoteInvalid(o)
    BY <1>0, <1>1, NextRoundFollows DEF ChangeCoupon, QuoteInvalid
  <1>2. ASSUME NEW o \in Orders, PollOrder(o) \/ Submit(o) PROVE FollowsQuote'
    BY <1>2, AnswerFollows DEF PollOrder, Submit
  <1>3. CASE UNCHANGED vars
    BY <1>3 DEF FollowsQuote, TypeOK, vars, Open
  <1> QED
    BY <1>1, <1>2, <1>3, ReceiveQuoteFollows, ReconnectFollows, AdvanceFollows,
       HandleEventsFollows, HearsFollows, AnswerFollows, BuyerFollows
       DEF Next

(* Initially the page follows nothing.                                     *)
LEMMA InitFollows == Init => FollowsQuote
  <1> SUFFICES ASSUME Init PROVE FollowsQuote
    OBVIOUS
  <1>1. 1 \in Orders
    BY OrderPageAssumption DEF OrderPageAssumption, Orders
  <1>2. page \in Page
    BY <1>1 DEF Init, Page, Pending, Display
  <1>3. StreamsOK(stream)
    BY NoStreamType, OrderPageAssumption DEF Init, StreamsOK, OrderPageAssumption
  <1>4. TypeOK
    BY <1>2, <1>3 DEF Init, TypeOK, StreamsOK, Status
  <1>5. Open = {}
    BY DEF Init, Open, NoStream
  <1> QED
    BY <1>4, <1>5 DEF Init, FollowsQuote

(* However late and out of order quotes arrive, connections drop, timers   *)
(* fire and coupons change: streams, timers and polls belong to the quote  *)
(* that is shown, and no stream is open while a reconnect is due.          *)
THEOREM FollowsCorrect == Spec => []FollowsQuote
  BY InitFollows, NextFollows, PTL DEF Spec

--------------------------------------------------------------------------------
(* What is shown has happened                                              *)

(* Statuses advance, and orders that are paid stay paid.                   *)
StatusesAdvance ==
  /\ \A o \in Orders :
       \/ order'[o] = order[o]
       \/ order[o] = "pending" /\ order'[o] = "paid"
       \/ order[o] = "paid" /\ order'[o] = "delivered"
  /\ paid \subseteq paid'

LEMMA NextAdvances ==
  ASSUME TypeOK, [Next]_vars
  PROVE  StatusesAdvance
  <1>1. CASE UNCHANGED order /\ paid \subseteq paid'
    BY <1>1 DEF StatusesAdvance
  <1>2. ASSUME NEW o \in Orders, Advance(o) PROVE StatusesAdvance
    <2>1. /\ order \in [Orders -> Status] /\ UNCHANGED paid
          /\ \/ order[o] = "pending" /\ order' = [order EXCEPT ![o] = "paid"]
             \/ order[o] = "paid" /\ order' = [order EXCEPT ![o] = "delivered"]
      BY <1>2 DEF TypeOK, Advance
    <2> QED
      BY <2>1 DEF StatusesAdvance
  <1>3. CASE \/ \E o \in Orders : \/ Sign(o) \/ HandleEvents(o) \/ Subscribe(o) \/ Cancel(o)
                                  \/ OnMessage(o) \/ OnError(o)
    BY <1>1, <1>3 DEF Sign, HandleEvents, Subscribe, Cancel, OnMessage, OnError, server
  <1>4. CASE \/ ChangeCoupon \/ Unmount \/ Pay
             \/ \E o \in Orders : \/ Decline(o) \/ ReceiveQuote(o) \/ QuoteFails(o) \/ QuoteInvalid(o)
                                  \/ Reconnect(o) \/ PollOrder(o) \/ Submit(o)
    BY <1>1, <1>4
       DEF ChangeCoupon, NextRound, Unmount, CleanUp, Pay, Decline, ReceiveQuote,
           QuoteFails, QuoteInvalid, Reconnect, PollOrder, Submit, Ask, server
  <1>5. CASE \/ \E a \in answers : ReceiveAnswer(a) \/ LoseAnswer(a)
             \/ UNCHANGED vars
    BY <1>1, <1>5 DEF ReceiveAnswer, LoseAnswer, server, vars
  <1> QED
    BY <1>2, <1>3, <1>4, <1>5 DEF Next

(* The status s of the order o is reached after the step.                  *)
ReachedNext(s, o) == s = "pending" \/ order'[o] = s \/ order'[o] = "delivered"

(* What has happened stays so.                                             *)
LEMMA ReachedStays ==
  ASSUME StatusesAdvance, NEW o \in Orders, NEW s, Reached(s, o)
  PROVE  ReachedNext(s, o)
  BY DEF StatusesAdvance, Reached, ReachedNext

(* The messages in the streams s tell nothing of their orders too early.   *)
InboxesReached(s) ==
  \A o \in Orders : \A i \in 1..Len(s[o].inbox) : Reached(s[o].inbox[i].status, o)

(* What is shown has happened.                                             *)
DisplayReached(d) ==
  /\ d.paymentStatus = "PAID"
       => \E o \in Orders : order[o] \in {"paid", "delivered"} /\ o \in paid
  /\ d.deliveryStatus = "DELIVERED" => \E o \in Orders : order[o] = "delivered"

LEMMA AheadParts ==
  AheadInv <=> /\ TypeOK /\ DisplayReached(page.display)
               /\ \A o \in Orders : order[o] # "pending" => o \in paid
               /\ InboxesReached(stream)
               /\ \A a \in answers : Reached(a.status, a.order)
  BY DEF AheadInv, NotAhead, DisplayReached, InboxesReached

(* A status that is reached is shown rightly.                              *)
LEMMA ReachedShown ==
  ASSUME TypeOK, \A o \in Orders : order[o] # "pending" => o \in paid,
         NEW s \in Status, NEW o \in Orders, Reached(s, o)
  PROVE  /\ PaymentStatus(s) = "PAID" => order[o] \in {"paid", "delivered"} /\ o \in paid
         /\ DeliveryStatus(s) = "DELIVERED" => order[o] = "delivered"
  BY DEF TypeOK, Status, Reached, PaymentStatus, DeliveryStatus

(* A display that has happened, or shows nothing, still has.               *)
LEMMA DisplayKept ==
  ASSUME AheadInv, StatusesAdvance, page'.display \in {page.display, Pending}
  PROVE  DisplayReached(page.display)'
  <1>1. DisplayReached(page.display) /\ order \in [Orders -> Status]
    BY AheadParts DEF AheadInv, TypeOK
  <1>2. CASE page'.display = page.display
    BY <1>1, <1>2 DEF DisplayReached, StatusesAdvance
  <1>3. CASE page'.display = Pending
    BY <1>3 DEF DisplayReached, Pending
  <1> QED
    BY <1>2, <1>3

(* Messages that wait on, or are dropped with their stream.                *)
LEMMA InboxesKept ==
  ASSUME AheadInv, StatusesAdvance,
         \A o \in Orders : stream'[o].inbox = stream[o].inbox \/ stream'[o].inbox = <<>>
  PROVE  InboxesReached(stream)'
  <1>1. ASSUME NEW o \in Orders, NEW i \in 1..Len(stream'[o].inbox)
        PROVE  ReachedNext(stream'[o].inbox[i].status, o)
    <2>1. CASE stream'[o].inbox = stream[o].inbox
      BY <1>1, <2>1, ReachedStays DEF AheadInv
    <2>2. CASE stream'[o].inbox = <<>>
      BY <1>1, <2>2, EmptySeq
    <2> QED
      BY <2>1, <2>2
  <1> QED
    BY <1>1 DEF InboxesReached, Reached, ReachedNext

(* Only Advance takes an order from pending, when it is paid.              *)
LEMMA AdvancedArePaid ==
  ASSUME AheadInv, [Next]_vars
  PROVE  (\A o \in Orders : order[o] # "pending" => o \in paid)'
  <1>0. StatusesAdvance /\ order \in [Orders -> Status]
    BY NextAdvances DEF AheadInv, TypeOK
  <1>1. ASSUME NEW o \in Orders, Advance(o)
        PROVE  \A w \in Orders : order'[w] # "pending" => w \in paid'
    BY <1>0, <1>1 DEF Advance, AheadInv
  <1>2. ASSUME ~\E o \in Orders : Advance(o) PROVE UNCHANGED order
    <2>1. CASE \/ ChangeCoupon \/ Unmount \/ Pay
               \/ \E o \in Orders : \/ Decline(o) \/ Sign(o) \/ ReceiveQuote(o) \/ QuoteFails(o)
                                    \/ QuoteInvalid(o) \/ Reconnect(o)
                                    \/ PollOrder(o) \/ Submit(o)
      BY <2>1
         DEF ChangeCoupon, NextRound, Unmount, CleanUp, Pay, Decline, Sign, ReceiveQuote,
             QuoteFails, QuoteInvalid, Reconnect, PollOrder, Submit, Ask, server
    <2>2. ASSUME NEW o \in Orders,
                 \/ HandleEvents(o) \/ Subscribe(o) \/ Cancel(o)
                 \/ OnMessage(o) \/ OnError(o)
          PROVE  UNCHANGED order
      BY <2>2 DEF HandleEvents, Subscribe, Cancel, OnMessage, OnError, server
    <2>3. CASE \/ \E a \in answers : ReceiveAnswer(a) \/ LoseAnswer(a)
               \/ UNCHANGED vars
      BY <2>3 DEF ReceiveAnswer, LoseAnswer, server, vars
    <2> QED
      BY <1>2, <2>1, <2>2, <2>3 DEF Next
  <1> QED
    BY <1>0, <1>1, <1>2 DEF AheadInv, StatusesAdvance

(* What the next state owes, once its types are right.                     *)
AheadNext ==
  /\ DisplayReached(page.display)'
  /\ InboxesReached(stream)'
  /\ \A a \in answers' : ReachedNext(a.status, a.order)

(* Answers that wait on, or are received or lost.                          *)
LEMMA AnswersKept ==
  ASSUME AheadInv, StatusesAdvance, answers' \subseteq answers
  PROVE  \A a \in answers' : ReachedNext(a.status, a.order)
  <1>1. SUFFICES ASSUME NEW a \in answers PROVE ReachedNext(a.status, a.order)
    OBVIOUS
  <1>2. a.order \in Orders /\ Reached(a.status, a.order)
    BY DEF AheadInv, TypeOK, Answer
  <1> QED
    BY <1>2, ReachedStays

(* A step that brings no message, no answer and nothing new to show.       *)
Quiet ==
  /\ page'.display \in {page.display, Pending}
  /\ \A o \in Orders : stream'[o].inbox = stream[o].inbox \/ stream'[o].inbox = <<>>
  /\ answers' \subseteq answers

LEMMA QuietAhead ==
  ASSUME AheadInv, StatusesAdvance, Quiet
  PROVE  AheadNext
  BY DisplayKept, InboxesKept, AnswersKept DEF Quiet, AheadNext

(* Connecting and disconnecting is such a step ...                         *)
LEMMA ConnectIsQuiet ==
  ASSUME TypeOK, NEW o \in Orders,
         ReceiveQuote(o) \/ QuoteInvalid(o) \/ Reconnect(o) \/ ChangeCoupon \/ Unmount
         \/ Subscribe(o) \/ Cancel(o) \/ OnError(o)
  PROVE  Quiet
  <1>0. page \in Page /\ stream \in [Orders -> Stream]
    BY DEF TypeOK
  <1>1. CASE QuoteInvalid(o) \/ ChangeCoupon \/ Unmount
    <2>1. CleanUp /\ page'.display = page.display
      BY <1>0, <1>1 DEF QuoteInvalid, ChangeCoupon, NextRound, Unmount, Page
    <2> QED
      BY <2>1 DEF CleanUp, Quiet, NoStream
  <1>2. CASE ReceiveQuote(o)
    BY <1>0, <1>2 DEF ReceiveQuote, ConnectEvents, Quiet, NoStream, Page
  <1>3. CASE Reconnect(o)
    BY <1>3 DEF Reconnect, ConnectEvents, Quiet, NoStream
  <1>4. CASE Subscribe(o)
    BY <1>0, <1>4 DEF Subscribe, Quiet, Stream
  <1>5. CASE Cancel(o)
    BY <1>5 DEF Cancel, Quiet
  <1>6. CASE OnError(o)
    BY <1>0, <1>6 DEF OnError, Quiet, NoStream
  <1> QED
    BY <1>1, <1>2, <1>3, <1>4, <1>5, <1>6

(* ... and so is what the buyer does, and an answer that is lost.          *)
LEMMA BuyerIsQuiet ==
  ASSUME TypeOK,
         \/ Pay \/ UNCHANGED vars
         \/ \E o \in Orders : Sign(o) \/ Decline(o) \/ QuoteFails(o)
         \/ \E a \in answers : LoseAnswer(a)
  PROVE  Quiet
  <1>0. page \in Page
    BY DEF TypeOK
  <1>1. CASE Pay \/ \E o \in Orders : Sign(o) \/ Decline(o) \/ QuoteFails(o)
    BY <1>0, <1>1 DEF Pay, Sign, Decline, QuoteFails, Quiet, Page
  <1>2. CASE UNCHANGED vars \/ \E a \in answers : LoseAnswer(a)
    BY <1>2 DEF vars, LoseAnswer, Quiet
  <1> QED
    BY <1>1, <1>2

(* The handler reads the order it tells of.                                *)
LEMMA HandleEventsAhead ==
  ASSUME AheadInv, StatusesAdvance, NEW o \in Orders, HandleEvents(o)
  PROVE  AheadNext
  <1>0. stream \in [Orders -> Stream]
    BY DEF AheadInv, TypeOK
  <1>1. page' = page /\ answers' = answers /\ order' = order
    BY DEF HandleEvents, server
  <1>2. PICK m : m = [snapshot |-> TRUE, status |-> order[o]]
    OBVIOUS
  <1>3. stream' = [stream EXCEPT ![o] = [at |-> "listening", inbox |-> <<m>>]]
    BY <1>2 DEF HandleEvents
  <1>4. ASSUME NEW w \in Orders, NEW i \in 1..Len(stream'[w].inbox)
        PROVE  ReachedNext(stream'[w].inbox[i].status, w)
    <2>1. CASE w # o
      <3>1. stream'[w] = stream[w]
        BY <1>0, <1>3, <2>1
      <3> QED
        BY <1>4, <3>1, ReachedStays DEF AheadInv
    <2>2. CASE w = o
      <3>1. stream'[w].inbox = <<m>>
        BY <1>0, <1>3, <2>2
      <3>2. i = 1 /\ stream'[w].inbox[1] = m
        BY <1>4, <3>1
      <3> QED
        BY <1>1, <1>2, <2>2, <3>2 DEF ReachedNext
    <2> QED
      BY <2>1, <2>2
  <1>5. InboxesReached(stream)'
    BY <1>4 DEF InboxesReached, Reached, ReachedNext
  <1> QED
    BY <1>1, <1>5, DisplayKept, AnswersKept DEF AheadNext

(* An event is published when the status it tells of is committed.         *)
LEMMA AdvanceAhead ==
  ASSUME AheadInv, StatusesAdvance, NEW o \in Orders, Advance(o)
  PROVE  AheadNext
  <1>0. /\ stream \in [Orders -> Stream] /\ page' = page /\ answers' = answers
    BY DEF AheadInv, TypeOK, Advance
  <1>1. PICK m : m = [snapshot |-> FALSE, status |-> order'[o]]
    OBVIOUS
  <1>2. \/ stream' = stream
        \/ stream' = [stream EXCEPT ![o].inbox = Append(@, m)]
    BY <1>1 DEF Advance, Publish
  <1>3. ASSUME NEW w \in Orders, NEW i \in 1..Len(stream'[w].inbox)
        PROVE  ReachedNext(stream'[w].inbox[i].status, w)
    <2>1. CASE stream'[w] = stream[w]
      BY <1>3, <2>1, ReachedStays DEF AheadInv
    <2>2. CASE stream'[w] # stream[w]
      <3>1. w = o /\ stream'[o].inbox = Append(stream[o].inbox, m)
            /\ stream[o].inbox \in Seq(Message)
        BY <1>0, <1>2, <2>2 DEF Stream
      <3>2. CASE i \in 1..Len(stream[o].inbox)
        <4>1. stream'[o].inbox[i] = stream[o].inbox[i]
          BY <3>1, <3>2
        <4> QED
          BY <3>1, <3>2, <4>1, ReachedStays DEF AheadInv
      <3>3. CASE i = Len(stream[o].inbox) + 1
        <4>1. stream'[o].inbox[i] = m
          BY <3>1, <3>3
        <4> QED
          BY <1>1, <3>1, <4>1 DEF ReachedNext
      <3>4. Len(Append(stream[o].inbox, m)) = Len(stream[o].inbox) + 1
            /\ Len(stream[o].inbox) \in Nat
        BY <3>1
      <3> QED
        BY <1>3, <3>1, <3>2, <3>3, <3>4
    <2> QED
      BY <2>1, <2>2
  <1>4. InboxesReached(stream)'
    BY <1>3 DEF InboxesReached, Reached, ReachedNext
  <1> QED
    BY <1>0, <1>4, DisplayKept, AnswersKept DEF AheadNext

(* A message that is read waits no longer, or with all others.             *)
LEMMA OnMessageInboxes ==
  ASSUME AheadInv, StatusesAdvance, NEW o \in Orders, OnMessage(o)
  PROVE  InboxesReached(stream)'
  <1>0. stream \in [Orders -> Stream] /\ stream[o].inbox # <<>>
    BY DEF AheadInv, TypeOK, OnMessage
  <1>1. \/ stream' = [stream EXCEPT ![o] = NoStream]
        \/ stream' = [stream EXCEPT ![o].inbox = Tail(@)]
    BY DEF OnMessage
  <1>2. ASSUME NEW w \in Orders, NEW i \in 1..Len(stream'[w].inbox)
        PROVE  ReachedNext(stream'[w].inbox[i].status, w)
    <2>1. CASE stream'[w] = stream[w]
      BY <1>2, <2>1, ReachedStays DEF AheadInv
    <2>2. CASE stream'[w] # stream[w]
      <3>1. w = o /\ stream[o].inbox \in Seq(Message)
        BY <1>0, <1>1, <2>2 DEF Stream
      <3>2. CASE stream'[o].inbox = <<>>
        BY <1>2, <3>1, <3>2, EmptySeq
      <3>3. CASE stream'[o].inbox = Tail(stream[o].inbox)
        <4>1. /\ Len(stream[o].inbox) \in Nat
              /\ Len(Tail(stream[o].inbox)) = Len(stream[o].inbox) - 1
              /\ \A j \in 1..Len(Tail(stream[o].inbox)) :
                   Tail(stream[o].inbox)[j] = stream[o].inbox[j + 1]
          BY <1>0, <3>1, HeadTailProperties
        <4>2. /\ i + 1 \in 1..Len(stream[o].inbox)
              /\ stream'[o].inbox[i] = stream[o].inbox[i + 1]
          BY <1>2, <3>1, <3>3, <4>1
        <4> QED
          BY <3>1, <4>2, ReachedStays DEF AheadInv
      <3>4. CASE stream' = [stream EXCEPT ![o] = NoStream]
        BY <1>0, <3>2, <3>4 DEF NoStream
      <3>5. CASE stream' = [stream EXCEPT ![o].inbox = Tail(@)]
        <4>1. stream'[o].inbox = Tail(stream[o].inbox)
          BY <1>0, <3>5 DEF Stream
        <4> QED
          BY <3>3, <4>1
      <3> QED
        BY <1>1, <3>4, <3>5
    <2> QED
      BY <2>1, <2>2
  <1> QED
    BY <1>2 DEF InboxesReached, Reached, ReachedNext

(* What it says has happened, so what is shown has.                        *)
LEMMA OnMessageAhead ==
  ASSUME AheadInv, StatusesAdvance, NEW o \in Orders, OnMessage(o)
  PROVE  AheadNext
  <1>0. /\ stream[o] \in Stream /\ page \in Page /\ stream[o].inbox # <<>>
        /\ UNCHANGED <<order, paid, answers>>
    BY DEF AheadInv, TypeOK, OnMessage
  <1>1. PICK m : m = Head(stream[o].inbox)
    OBVIOUS
  <1>2. m = stream[o].inbox[1] /\ m \in Message /\ 1 \in 1..Len(stream[o].inbox)
    BY <1>0, <1>1, HeadTailProperties, EmptySeq, LenProperties DEF Stream
  <1>3. PICK s \in Status : s = m.status
    BY <1>2 DEF Message
  <1>4. Reached(s, o)
    BY <1>2, <1>3 DEF AheadInv
  <1>5. /\ PaymentStatus(s) = "PAID" => order[o] \in {"paid", "delivered"} /\ o \in paid
        /\ DeliveryStatus(s) = "DELIVERED" => order[o] = "delivered"
    BY <1>4, ReachedShown DEF AheadInv
  <1>6. page'.display = Shown(page.display, m)
    BY <1>0, <1>1 DEF OnMessage, Page
  <1>7. /\ page'.display.paymentStatus \in {PaymentStatus(s), page.display.paymentStatus}
        /\ page'.display.deliveryStatus \in {DeliveryStatus(s), page.display.deliveryStatus}
    BY <1>3, <1>6 DEF Shown
  <1>8. DisplayReached(page.display)
    BY AheadParts
  <1>9. DisplayReached(page.display)'
    BY <1>0, <1>5, <1>7, <1>8 DEF DisplayReached
  <1> QED
    BY <1>0, <1>9, OnMessageInboxes, AnswersKept DEF AheadNext

(* An answer tells of an order what is read when it is asked.              *)
LEMMA AskAhead ==
  ASSUME AheadInv, StatusesAdvance, NEW o \in Orders, PollOrder(o) \/ Submit(o)
  PROVE  AheadNext
  <1>1. PICK p : Ask(o, p)
    BY DEF PollOrder, Submit
  <1>2. UNCHANGED <<page, stream, order>>
    BY <1>1 DEF Ask, server
  <1>3. PICK a : a = [order |-> o, status |-> order[o], polled |-> p]
    OBVIOUS
  <1>4. a.order = o /\ a.status = order[o]
    BY <1>3
  <1>5. answers' = answers \cup {a}
    BY <1>1, <1>3 DEF Ask
  <1>6. ASSUME NEW b \in answers PROVE ReachedNext(b.status, b.order)
    <2>1. b.order \in Orders /\ Reached(b.status, b.order)
      BY DEF AheadInv, TypeOK, Answer
    <2> QED
      BY <2>1, ReachedStays
  <1>7. \A b \in answers' : ReachedNext(b.status, b.order)
    BY <1>2, <1>4, <1>5, <1>6 DEF ReachedNext
  <1> QED
    BY <1>2, <1>7, DisplayKept, InboxesKept DEF AheadNext

(* It is shown when it arrives, whatever the page shows by then.           *)
LEMMA ReceiveAnswerAhead ==
  ASSUME AheadInv, StatusesAdvance, NEW a \in answers, ReceiveAnswer(a)
  PROVE  AheadNext
  <1>1. /\ UNCHANGED <<order, paid, stream>> /\ answers' \subseteq answers
        /\ page \in Page
    BY DEF ReceiveAnswer, server, AheadInv, TypeOK
  <1>2. page'.display = [paymentStatus |-> PaymentStatus(a.status),
                         deliveryStatus |-> DeliveryStatus(a.status)]
    BY <1>1 DEF ReceiveAnswer, Page
  <1>3. /\ a.order \in Orders /\ a.status \in Status /\ Reached(a.status, a.order)
    BY DEF AheadInv, TypeOK, Answer
  <1>4. /\ PaymentStatus(a.status) = "PAID"
             => order[a.order] \in {"paid", "delivered"} /\ a.order \in paid
        /\ DeliveryStatus(a.status) = "DELIVERED" => order[a.order] = "delivered"
    BY <1>3, ReachedShown DEF AheadInv
  <1>5. DisplayReached(page.display)'
    BY <1>1, <1>2, <1>3, <1>4 DEF DisplayReached
  <1> QED
    BY <1>1, <1>5, InboxesKept, AnswersKept DEF AheadNext

(* Every step keeps what is shown behind what has happened.                *)
LEMMA NextAhead == FollowsQuote /\ AheadInv /\ [Next]_vars => AheadInv'
  <1> SUFFICES ASSUME FollowsQuote, AheadInv, [Next]_vars PROVE AheadInv'
    OBVIOUS
  <1>0. TypeOK /\ StatusesAdvance /\ TypeOK'
    BY NextAdvances, NextFollows DEF FollowsQuote
  <1>1. ASSUME NEW o \in Orders,
               ReceiveQuote(o) \/ QuoteInvalid(o) \/ Reconnect(o) \/ ChangeCoupon \/ Unmount
               \/ Subscribe(o) \/ Cancel(o) \/ OnError(o)
        PROVE  AheadNext
    BY <1>0, <1>1, ConnectIsQuiet, QuietAhead
  <1>2. ASSUME ChangeCoupon \/ Unmount PROVE AheadNext
    <2>1. 1 \in Orders
      BY OrderPageAssumption DEF OrderPageAssumption, Orders
    <2> QED
      BY <1>1, <1>2, <2>1
  <1>3. ASSUME \/ Pay \/ UNCHANGED vars
               \/ \E o \in Orders : Sign(o) \/ Decline(o) \/ QuoteFails(o)
               \/ \E a \in answers : LoseAnswer(a)
        PROVE  AheadNext
    BY <1>0, <1>3, BuyerIsQuiet, QuietAhead
  <1>4. AheadNext
    BY <1>0, <1>1, <1>2, <1>3, AdvanceAhead, HandleEventsAhead, OnMessageAhead,
       AskAhead, ReceiveAnswerAhead DEF Next
  <1>5. \A a \in answers' : Reached(a.status, a.order)'
    BY <1>4 DEF AheadNext, Reached, ReachedNext
  <1>6. (\A o \in Orders : order[o] # "pending" => o \in paid)'
    BY AdvancedArePaid
  <1> QED
    BY <1>0, <1>4, <1>5, <1>6 DEF AheadNext, AheadInv, NotAhead, DisplayReached, InboxesReached

(* Initially nothing is shown, sent or asked.                              *)
LEMMA InitAhead == Init => AheadInv
  <1> SUFFICES ASSUME Init PROVE AheadInv
    OBVIOUS
  <1>1. TypeOK
    BY InitFollows DEF FollowsQuote
  <1>2. NotAhead
    BY DEF Init, Pending, NotAhead
  <1>3. ASSUME NEW o \in Orders PROVE stream[o].inbox = <<>> /\ order[o] = "pending"
    BY DEF Init, NoStream
  <1>4. \A o \in Orders : 1..Len(stream[o].inbox) = {}
    BY <1>3
  <1>5. answers = {}
    BY DEF Init
  <1> QED
    BY <1>1, <1>2, <1>3, <1>4, <1>5 DEF AheadInv

(* The page shows PAID only when an order it made was paid on chain, and   *)
(* DELIVERED only when one was delivered, however late the messages and    *)
(* answers are that say so.                                                *)
THEOREM NotAheadCorrect == Spec => []NotAhead
  <1>1. Init => FollowsQuote /\ AheadInv
    BY InitFollows, InitAhead
  <1>2. FollowsQuote /\ AheadInv /\ [Next]_vars => (FollowsQuote /\ AheadInv)'
    BY NextFollows, NextAhead
  <1>3. AheadInv => NotAhead
    BY DEF AheadInv
  <1> QED
    BY <1>1, <1>2, <1>3, PTL DEF Spec

================================================================================
