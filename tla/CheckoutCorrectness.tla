-------------------------- MODULE CheckoutCorrectness --------------------------
(***************************************************************************)
(* What is promised of quotes and promotion counters.                      *)
(***************************************************************************)
EXTENDS Checkout

(* Every row and transaction has its shape, and no promotion has been      *)
(* given back more uses than it had (the decrements of re-quotes and       *)
(* duplicates never take a counter below zero).                            *)
TypeOK ==
  /\ order \in Seq(OrderRow \cup {Gone})
  /\ promotion \in [Promos -> Promotion]
  /\ \A p \in Promos : promotion[p].usageCount >= 0
  /\ quote \in [Quotes -> Quote]

(* However page loads, reloads with and without a coupon, settlements and  *)
(* refunds interleave, no player gets a second PENDING order for an item:  *)
(* of any two, one is from before quotes were serialised.                  *)
OnePending ==
  \A o, w \in Orders :
    /\ o # w
    /\ order[o].key = order[w].key
    /\ order[o].status = "PENDING" /\ order[w].status = "PENDING"
    => o <= Len(Legacy) \/ w <= Len(Legacy)

(* The counter of a promotion is the number of orders that use it: what a  *)
(* re-quote or the clean-up of duplicates removes is given back, and never *)
(* given back twice, also when quotes roll back half-way.                  *)
UsageCounted ==
  \A p \in Promos :
    promotion[p].state # "deleted" => promotion[p].usageCount = Cardinality(Users(p))

(* The limit of a promotion is checked in one statement and the counter    *)
(* moved in another, so concurrent quotes of different players or items    *)
(* may overrun it, by no more than one use each.                           *)
OverrunBounded ==
  \A p \in Promos : promotion[p].usageCount < Limit[p] + Cardinality(Quotes)

(* A page load without a coupon leaves the buyer with the order he is      *)
(* paying and nothing else: the order it returns is still there when the   *)
(* quote commits, and every other PENDING order for the item is gone.      *)
ReuseKeepsNewest ==
  [][\A q \in Quotes : Reuse(q) =>
       /\ order'[quote[q].existing].status # "DELETED"
       /\ \A o \in Orders \ {quote[q].existing} :
            order[o].key = quote[q].key => order'[o].status # "PENDING"]_vars

--------------------------------------------------------------------------------
(* The inductive invariant                                                 *)

Shape ==
  /\ order \in Seq(OrderRow \cup {Gone})
  /\ promotion \in [Promos -> Promotion]
  /\ quote \in [Quotes -> Quote]

\* The advisory lock: running quotes have keys of their own.
KeysAreHeld ==
  /\ \A q \in Quotes : quote[q].key = NoKey <=> quote[q].at = "idle"
  /\ \A q, r \in Quotes : quote[q].key = quote[r].key => q = r \/ quote[q].key = NoKey

\* A quote that ends in a new order, and one that reuses an order.
Renews(q) ==
  \/ quote[q].at \in {"count", "price", "create"}
  \/ quote[q].at = "drop" /\ quote[q].code # NoCode

Reuses(q) ==
  \/ quote[q].at = "reuse"
  \/ quote[q].at = "drop" /\ quote[q].code = NoCode

\* What a quote drops and keeps is of its own key.
DropsItsOwn(q) ==
  /\ quote[q].at \in {"idle", "duplicates"} => quote[q].drop = {}
  /\ \A o \in quote[q].drop : o \in Orders /\ order[o].key = quote[q].key
  /\ quote[q].at = "duplicates" \/ Reuses(q) =>
       /\ quote[q].existing \in Orders \ quote[q].drop
       /\ order[quote[q].existing].key = quote[q].key
  /\ quote[q].at \in {"reuse", "duplicates"} => quote[q].code = NoCode
  /\ quote[q].at # "create" => quote[q].promo = NoPromo

\* At its commit, a quote leaves no PENDING order of its key beside its own but
\* old ones, and a reused order none at all.
DropsTheRest(q) ==
  /\ Renews(q) =>
       /\ \A o, w \in quote[q].drop : o = w
       /\ \A o \in Pending(quote[q].key) : o <= Len(Legacy) \/ o \in quote[q].drop
  /\ Reuses(q) => Pending(quote[q].key) \subseteq quote[q].drop \cup {quote[q].existing}

PendingInv ==
  /\ Shape
  /\ KeysAreHeld
  /\ \A q \in Quotes : DropsItsOwn(q) /\ DropsTheRest(q)
  /\ OnePending

AllCounted == \A p \in Promos : promotion[p].usageCount = Cardinality(Users(p))

\* The quotes about to use p once more.
Takers(p) ==
  {q \in Quotes : quote[q].at = "create" /\ quote[q].promo = p /\ Releases(q, p) = {}}

TakersCounted ==
  \A p \in Promos :
    promotion[p].usageCount + Cardinality(Takers(p)) < Limit[p] + Cardinality(Quotes)

================================================================================
