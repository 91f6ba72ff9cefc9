-------------------------- MODULE OrderPageCorrectness --------------------------
(***************************************************************************)
(* What the checkout page shows of the orders it made.                     *)
(***************************************************************************)
EXTENDS OrderPage

\* Type invariant.
TypeOK ==
  /\ order \in [Orders -> Status] /\ paid \subseteq Orders
  /\ subscribed \subseteq Orders /\ cancels \subseteq Orders
  /\ stream \in [Orders -> Stream]
  /\ \A o \in Orders : Len(stream[o].inbox) <= MaxMessages
  /\ timer \subseteq Orders /\ poll \subseteq Orders
  /\ answers \subseteq Answer
  /\ page \in Page

(* Streams, reconnect timers and intervals belong to the quote that the    *)
(* page shows, and there is one stream or one timer, although quotes       *)
(* arrive late and out of order, connections drop and coupons change in    *)
(* between: no order of an earlier quote goes on being followed.           *)
FollowsQuote ==
  /\ TypeOK
  /\ Open \cup timer \cup poll \subseteq {page.quote}
  /\ Open \cap timer = {}

(* The page never shows what has not happened: PAID only when an order it  *)
(* made was paid on chain, and DELIVERED only when one was delivered.      *)
NotAhead ==
  /\ page.display.paymentStatus = "PAID" => \E o \in Orders : order[o] \in {"paid", "delivered"} /\ o \in paid
  /\ page.display.deliveryStatus = "DELIVERED" => \E o \in Orders : order[o] = "delivered"

(* Statuses only advance, so what a message or an answer says of its order *)
(* has happened, however long it was under way.                            *)
Reached(s, o) == s = "pending" \/ order[o] = s \/ order[o] = "delivered"

(* The inductive invariant behind NotAhead.                                *)
AheadInv ==
  /\ TypeOK /\ NotAhead
  /\ \A o \in Orders : order[o] # "pending" => o \in paid
  /\ \A o \in Orders : \A i \in 1..Len(stream[o].inbox) :
       Reached(stream[o].inbox[i].status, o)
  /\ \A a \in answers : Reached(a.status, a.order)

QuoteDelivered == page.quote # NoOrder /\ order[page.quote] = "delivered"

(* Nothing under way to the page is older than the delivery of the order   *)
(* it shows, and no other order has been paid.                             *)
NothingOlder ==
  /\ paid \cup page.paying = {page.quote}
  /\ \A a \in answers : a.order = page.quote /\ a.status = "delivered"
  /\ \A i \in 1..Len(stream[page.quote].inbox) :
       stream[page.quote].inbox[i].status = "delivered"

(* A page that polls a delivered order comes to show the delivery and goes *)
(* on showing it, whatever becomes of streams and events, unless the buyer *)
(* leaves or asks for another quote or one replaces it.  Only, at some     *)
(* time of the poll there must be nothing older under way: an older answer *)
(* or message that arrives once the poll has learned of the delivery and   *)
(* ended puts back what it says, and nothing may correct it.               *)
DeliveryIsShown ==
  page.quote \in poll /\ QuoteDelivered /\ NothingOlder
    ~> \/ [](page.display.deliveryStatus = "DELIVERED")
       \/ ~QuoteDelivered \/ page.round \in page.quoting \/ ~Mounted

================================================================================
