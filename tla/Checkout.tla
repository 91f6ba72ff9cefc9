------------------------------- MODULE Checkout --------------------------------
(***************************************************************************)
(* Checkout quotes and promotion counters: concurrent executions of        *)
(* createOrderQuote, which reuses, re-quotes or creates the PENDING order  *)
(* of a player for an item, next to settlement, refunds and studios that   *)
(* edit their promotions.                                                  *)
(*                                                                         *)
(* A quote is one READ COMMITTED transaction: each statement is a step     *)
(* that sees the committed rows and the quote's own writes; its writes     *)
(* lock their rows and show to others at the commit.  An item stands for   *)
(* an item with a quantity and a currency.                                 *)
(***************************************************************************)
EXTENDS Integers, Sequences, FiniteSets

CONSTANTS
  Players, Items,
  NoKey,               \* the key of a quote that is not running
  Promos, NoPromo,     \* promotions of the studio, and a null promotion
  Codes, NoCode,       \* coupon codes, and the absence of one
  CodeOf,              \* CodeOf[p]: the code of promotion p
  Limit,               \* Limit[p]: its usageLimit (beyond MaxOrders: none)
  FirstPurchase,       \* the promotions of type FIRST_PURCHASE
  Discount,            \* Discount[p][i]: what it takes off item i (0: does not apply)
  Legacy,              \* orders, maybe duplicates, of before quotes were serialised
  Quotes,              \* concurrent executions of createOrderQuote
  MaxOrders            \* bound: orders ever created

\* What a quote is for: createOrderQuote serialises the quotes of one key.
Keys == Players \X Items

OrderRow == [status : {"PENDING", "PAID", "REFUNDED"},
             key : Keys, promo : Promos \cup {NoPromo}]

\* A row that was deleted.
Gone == [status |-> "DELETED", key |-> NoKey, promo |-> NoPromo]

ASSUME ConstantsAssumption ==
  /\ NoKey \notin Keys
  /\ NoPromo \notin Promos /\ NoCode \notin Codes
  /\ CodeOf \in [Promos -> Codes \cup {NoCode}]
  /\ Limit \in [Promos -> Nat]
  /\ FirstPurchase \subseteq Promos
  /\ Discount \in [Promos -> [Items -> Nat]]
  /\ Legacy \in Seq(OrderRow)
  /\ \A p \in Promos : Cardinality({o \in DOMAIN Legacy : Legacy[o].promo = p}) <= Limit[p]
  /\ IsFiniteSet(Quotes) /\ Quotes # {}
  /\ MaxOrders \in Nat

VARIABLES
  order,       \* the Order rows by age
  promotion,   \* the Promotion rows
  quote        \* the transaction of each execution

vars == <<order, promotion, quote>>

Orders == DOMAIN order
NoOrder == 0

Promotion == [state : {"open", "closed", "deleted"}, usageCount : Int]

Quote == [at : {"idle", "duplicates", "drop", "count", "price", "create", "reuse"},
          key : Keys \cup {NoKey}, code : Codes \cup {NoCode},
          existing : Nat, drop : SUBSET Nat,
          hasPaid : BOOLEAN, promo : Promos \cup {NoPromo}]

NoQuote == [at |-> "idle", key |-> NoKey, code |-> NoCode, existing |-> NoOrder,
            drop |-> {}, hasPaid |-> FALSE, promo |-> NoPromo]

\* The orders that use promotion p.
Users(p) == {o \in Orders : order[o].promo = p}

Init ==
  /\ order = Legacy
  /\ promotion = [p \in Promos |-> [state |-> "open", usageCount |-> Cardinality(Users(p))]]
  /\ quote = [q \in Quotes |-> NoQuote]

--------------------------------------------------------------------------------
(* createOrderQuote                                                        *)

Pending(k) == {o \in Orders : order[o].key = k /\ order[o].status = "PENDING"}

\* The newest of them, if any (a set of one element at most).
Newest(k) == {o \in Pending(k) : \A w \in Pending(k) : w <= o}

\* Mutant: quotes are not serialised.
KeyNotLocked(k) == TRUE

\* pg_advisory_xact_lock: the lock of a key is held to the end of the transaction.
KeyFree(k) == \A q \in Quotes : quote[q].key # k

(* The lock, the checks of item, studio and stock, and the read of the     *)
(* newest PENDING order.  A quote that the checks refuse ends here and has *)
(* changed nothing.                                                        *)
Begin(q, k, next) ==
  /\ quote[q].at = "idle"
  /\ KeyFree(k)
  /\ quote' = [quote EXCEPT ![q] = next]
  /\ UNCHANGED <<order, promotion>>

BeginFirst(q, k, c) ==
  /\ Pending(k) = {}
  /\ Begin(q, k, [NoQuote EXCEPT !.at = "count", !.key = k, !.code = c])

\* A coupon code has the existing order quoted again.
BeginRequote(q, k, c) ==
  \E o \in Newest(k) :
    Begin(q, k, [NoQuote EXCEPT !.at = "drop", !.key = k, !.code = c, !.drop = {o}])

\* Without a code the existing order is reused.
BeginReuse(q, k) ==
  \E o \in Newest(k) :
    Begin(q, k, [NoQuote EXCEPT !.at = "duplicates", !.key = k, !.existing = o])

\* Mutant: the reused order is among its duplicates.
DuplicatesWithItself(q) == Pending(quote[q].key)

Duplicates(q) == Pending(quote[q].key) \ {quote[q].existing}

ReadDuplicates(q) ==
  /\ quote[q].at = "duplicates"
  /\ quote' = [quote EXCEPT ![q].at = "drop", ![q].drop = Duplicates(q)]
  /\ UNCHANGED <<order, promotion>>

\* The quotes that have dropped their orders and not yet ended.
Dropped(q) == IF quote[q].at \in {"count", "price", "create", "reuse"}
                THEN quote[q].drop ELSE {}

PromoLocked(p) == \E q \in Quotes : \E o \in Dropped(q) : order[o].promo = p

OrderLocked(o) == \E q \in Quotes : o \in Dropped(q)

(* The deletions and the decrements that come with them.  The update of a  *)
(* promotion that is gone throws: then the quote can only roll back.       *)
Drop(q) ==
  /\ quote[q].at = "drop"
  /\ \A p \in {order[o].promo : o \in quote[q].drop} \ {NoPromo} :
       promotion[p].state # "deleted" /\ ~PromoLocked(p)
  /\ quote' = [quote EXCEPT ![q].at = IF quote[q].code = NoCode THEN "reuse" ELSE "count"]
  /\ UNCHANGED <<order, promotion>>

Count(q) ==
  /\ quote[q].at = "count"
  /\ quote' = [quote EXCEPT ![q].at = "price", ![q].hasPaid =
       \E o \in Orders \ quote[q].drop :
         order[o].status = "PAID" /\ order[o].key[1] = quote[q].key[1]]
  /\ UNCHANGED <<order, promotion>>

\* Mutant: the counts of all dropped orders are given back to each promotion.
ReleasesAll(q, p) == quote[q].drop

\* Mutant: nothing is given back for a duplicate.
ReleasesOnRequoteOnly(q, p) ==
  {o \in quote[q].drop : order[o].promo = p /\ quote[q].code # NoCode}

\* The dropped orders that used promotion p: each decrements its counter.
Releases(q, p) == {o \in quote[q].drop : order[o].promo = p}

\* Mutant: the last use is granted once too often.
WithinLimitOrAt(q, p) == promotion[p].usageCount <= Limit[p]

WithinLimit(q, p) == promotion[p].usageCount - Cardinality(Releases(q, p)) < Limit[p]

(* applyPromotion gives a discount.                                        *)
Applies(q, p) ==
  /\ promotion[p].state = "open"
  /\ WithinLimit(q, p)
  /\ CodeOf[p] = quote[q].code
  /\ p \in FirstPurchase => ~quote[q].hasPaid
  /\ Discount[p][quote[q].key[2]] > 0

\* The largest discounts: candidates come in any order and the first one wins.
Best(q) ==
  {p \in Promos :
     /\ Applies(q, p)
     /\ \A r \in Promos :
          Applies(q, r) => Discount[r][quote[q].key[2]] <= Discount[p][quote[q].key[2]]}

(* Without a code, no promotion is full price; with one that does not      *)
(* apply, INVALID_PROMOTION_CODE rolls the quote back.                     *)
Price(q) ==
  /\ quote[q].at = "price"
  /\ \/ \E p \in Best(q) : quote' = [quote EXCEPT ![q].at = "create", ![q].promo = p]
     \/ /\ Best(q) = {}
        /\ quote[q].code = NoCode
        /\ quote' = [quote EXCEPT ![q].at = "create"]
  /\ UNCHANGED <<order, promotion>>

\* The rows once q's deletions are committed.
Remaining(q) == [o \in Orders |-> IF o \in quote[q].drop THEN Gone ELSE order[o]]

\* How far q moves the counter of p.
Change(q, p) ==
  (IF quote[q].promo = p THEN 1 ELSE 0) - Cardinality(Releases(q, p))

Counted(q) == [p \in Promos |-> [promotion[p] EXCEPT !.usageCount = @ + Change(q, p)]]

(* The new order and the commit.  The update of a promotion that is gone   *)
(* throws, that of one whose row another quote has locked waits.           *)
Create(q) ==
  /\ quote[q].at = "create"
  /\ Len(order) < MaxOrders
  /\ quote[q].promo # NoPromo =>
       /\ promotion[quote[q].promo].state # "deleted"
       /\ \A r \in Quotes \ {q} : \A o \in Dropped(r) : order[o].promo # quote[q].promo
  /\ order' = Append(Remaining(q), [status |-> "PENDING", key |-> quote[q].key,
                                    promo |-> quote[q].promo])
  /\ promotion' = Counted(q)
  /\ quote' = [quote EXCEPT ![q] = NoQuote]

(* The existing order is returned as it was read.                          *)
Reuse(q) ==
  /\ quote[q].at = "reuse"
  /\ order' = Remaining(q)
  /\ promotion' = Counted(q)
  /\ quote' = [quote EXCEPT ![q] = NoQuote]

(* INVALID_PROMOTION_CODE, another throw, a crash, the transaction's       *)
(* timeout or PostgreSQL breaking a cycle of row locks.                    *)
RollBack(q) ==
  /\ quote[q].at # "idle"
  /\ quote' = [quote EXCEPT ![q] = NoQuote]
  /\ UNCHANGED <<order, promotion>>

--------------------------------------------------------------------------------
(* The others                                                              *)

(* verifyAndAdvanceOrder commits: whatever the status was, as it updates   *)
(* by id, unless the order is gone.                                        *)
Settle(o) ==
  /\ order[o].status \in {"PENDING", "REFUNDED"}
  /\ ~OrderLocked(o)
  /\ order' = [order EXCEPT ![o].status = "PAID"]
  /\ UNCHANGED <<promotion, quote>>

Refund(o) ==
  /\ order[o].status = "PAID"
  /\ ~OrderLocked(o)
  /\ order' = [order EXCEPT ![o].status = "REFUNDED"]
  /\ UNCHANGED <<promotion, quote>>

(* PATCH of isActive, or the time enters or leaves startsAt..endsAt.       *)
Toggle(p) ==
  /\ promotion[p].state # "deleted"
  /\ promotion' = [promotion EXCEPT ![p].state = IF @ = "open" THEN "closed" ELSE "open"]
  /\ UNCHANGED <<order, quote>>

(* DELETE: no foreign key holds the row.                                   *)
DeletePromotion(p) ==
  /\ promotion[p].state # "deleted"
  /\ ~PromoLocked(p)
  /\ promotion' = [promotion EXCEPT ![p].state = "deleted"]
  /\ UNCHANGED <<order, quote>>

QuoteStep(q) ==
  \/ \E k \in Keys :
       \/ \E c \in Codes \cup {NoCode} : BeginFirst(q, k, c)
       \/ \E c \in Codes : BeginRequote(q, k, c)
       \/ BeginReuse(q, k)
  \/ ReadDuplicates(q)
  \/ Drop(q)
  \/ Count(q)
  \/ Price(q)
  \/ Create(q)
  \/ Reuse(q)
  \/ RollBack(q)

Next ==
  \/ \E q \in Quotes : QuoteStep(q)
  \/ \E o \in Orders : Settle(o) \/ Refund(o)
  \/ \E p \in Promos : Toggle(p) \/ DeletePromotion(p)

Spec == Init /\ [][Next]_vars

================================================================================
