---------------------------- MODULE CheckoutProofs -----------------------------
(***************************************************************************)
(* No second PENDING order, and exact promotion counters, for every value  *)
(* of the constants.                                                       *)
(***************************************************************************)
EXTENDS CheckoutCorrectness, FiniteSetTheorems, TLAPS

(* Deleting rows leaves a sequence of rows as long as before.              *)
LEMMA RemainingIsSeq ==
  ASSUME Shape, NEW q \in Quotes
  PROVE  /\ Remaining(q) \in Seq(OrderRow \cup {Gone})
         /\ Len(Remaining(q)) = Len(order)
         /\ DOMAIN Remaining(q) = Orders
  <1>1. order \in Seq(OrderRow \cup {Gone}) /\ Orders = 1..Len(order)
    BY DEF Shape, Orders
  <1>2. \A o \in Orders : order[o] \in OrderRow \cup {Gone}
    BY <1>1
  <1>3. Remaining(q) \in [1..Len(order) -> OrderRow \cup {Gone}]
    BY <1>1, <1>2 DEF Remaining
  <1> QED
    BY <1>1, <1>3

(* What a quote's commit does to the rows: its dropped rows go, the others *)
(* stay, and Create appends one.                                           *)
LEMMA CommitRows ==
  ASSUME Shape, KeysAreHeld, NEW q \in Quotes, Create(q) \/ Reuse(q)
  PROVE  /\ order' \in Seq(OrderRow \cup {Gone})
         /\ \A o \in Orders :
              o \in Orders' /\ order'[o] = IF o \in quote[q].drop THEN Gone ELSE order[o]
         /\ Reuse(q) => Orders' = Orders
         /\ Create(q) =>
              /\ Len(order) + 1 \notin Orders
              /\ Orders' = Orders \cup {Len(order) + 1}
              /\ order'[Len(order) + 1] = [status |-> "PENDING", key |-> quote[q].key,
                                           promo |-> quote[q].promo]
  <1>1. /\ order \in Seq(OrderRow \cup {Gone}) /\ Orders = 1..Len(order)
        /\ Len(order) \in Nat
    BY DEF Shape, Orders
  <1>2. /\ Remaining(q) \in Seq(OrderRow \cup {Gone})
        /\ Len(Remaining(q)) = Len(order)
        /\ \A o \in Orders : Remaining(q)[o] = IF o \in quote[q].drop THEN Gone ELSE order[o]
    BY RemainingIsSeq DEF Remaining
  <1>3. CASE Reuse(q)
    <2>1. order' = Remaining(q)
      BY <1>3 DEF Reuse
    <2>2. Orders' = Orders
      BY <2>1 DEF Orders, Remaining
    <2>3. ~Create(q)
      BY <1>3 DEF Reuse, Create
    <2> QED
      BY <1>2, <2>1, <2>2, <2>3
  <1>4. CASE Create(q)
    <2> DEFINE row == [status |-> "PENDING", key |-> quote[q].key, promo |-> quote[q].promo]
    <2>1. order' = Append(Remaining(q), row) /\ quote[q].at = "create"
      BY <1>4 DEF Create
    <2>2. row \in OrderRow
      BY <2>1 DEF Shape, Quote, KeysAreHeld, OrderRow
    <2> HIDE DEF row
    <2>3. Orders' = 1..Len(order) + 1
      BY <1>1, <1>2, <2>1 DEF Orders
    <2>4. /\ \A o \in Orders : order'[o] = Remaining(q)[o]
          /\ order'[Len(order) + 1] = row
      BY <1>1, <1>2, <2>1
    <2>5. order' \in Seq(OrderRow \cup {Gone})
      BY <1>2, <2>1, <2>2
    <2>6. ~Reuse(q)
      BY <2>1 DEF Reuse
    <2> QED
      BY <1>1, <1>2, <2>3, <2>4, <2>5, <2>6 DEF row
  <1> QED
    BY <1>3, <1>4

(* A step of one quote that writes no row is harmless if the quote plans   *)
(* to drop what it should.                                                 *)
LEMMA QuoteMoves ==
  ASSUME PendingInv, NEW q \in Quotes, NEW x \in Quote,
         UNCHANGED <<order, promotion>>,
         quote' = [quote EXCEPT ![q] = x],
         \/ x = NoQuote
         \/ x.key = quote[q].key /\ x.at # "idle" /\ quote[q].at # "idle"
         \/ x.key \in Keys /\ KeyFree(x.key) /\ x.at # "idle",
         DropsItsOwn(q)', DropsTheRest(q)'
  PROVE  PendingInv'
  <1>1. /\ quote \in [Quotes -> Quote] /\ quote' \in [Quotes -> Quote]
        /\ quote'[q] = x
        /\ \A r \in Quotes \ {q} : quote'[r] = quote[r]
    BY DEF PendingInv, Shape
  <1>2. Shape'
    BY <1>1 DEF PendingInv, Shape
  <1>3. KeysAreHeld'
    <2>1. NoKey \notin Keys
      BY ConstantsAssumption
    <2> QED
      BY <1>1, <2>1 DEF PendingInv, KeysAreHeld, KeyFree, NoQuote
  <1>4. ASSUME NEW r \in Quotes \ {q} PROVE DropsItsOwn(r)' /\ DropsTheRest(r)'
    <2>1. quote'[r] = quote[r] /\ Orders' = Orders
      BY <1>1 DEF Orders
    <2>2. DropsItsOwn(r) /\ DropsTheRest(r)
      BY DEF PendingInv
    <2>3. Pending(quote[r].key)' = Pending(quote[r].key)
      BY <2>1 DEF Pending
    <2>4. DropsItsOwn(r)'
      BY <2>1, <2>2 DEF DropsItsOwn, Reuses
    <2>5. DropsTheRest(r)'
      BY <2>1, <2>2, <2>3 DEF DropsTheRest, Renews, Reuses
    <2> QED
      BY <2>4, <2>5
  <1>5. OnePending'
    BY DEF PendingInv, OnePending, Orders
  <1> QED
    BY <1>2, <1>3, <1>4, <1>5 DEF PendingInv

(* A quote that ends without a commit.                                     *)
LEMMA RollBackKeeps ==
  ASSUME PendingInv, NEW q \in Quotes, RollBack(q)
  PROVE  PendingInv'
  <1>1. NoQuote \in Quote
    BY DEF NoQuote, Quote, NoOrder
  <1>2. quote'[q] = NoQuote
    BY DEF RollBack, PendingInv, Shape
  <1>3. DropsItsOwn(q)' /\ DropsTheRest(q)'
    BY <1>2 DEF DropsItsOwn, DropsTheRest, Renews, Reuses, NoQuote
  <1> QED
    BY <1>1, <1>3, QuoteMoves DEF RollBack

(* The start of a quote takes the lock of its key.                         *)
LEMMA BeginKeeps ==
  ASSUME PendingInv, NEW q \in Quotes, NEW k \in Keys, NEW c \in Codes \cup {NoCode},
         \/ BeginFirst(q, k, c)
         \/ BeginRequote(q, k, c) /\ c # NoCode
         \/ BeginReuse(q, k)
  PROVE  PendingInv'
  <1>1. /\ quote \in [Quotes -> Quote]
        /\ Orders \subseteq Nat
        /\ \A o \in Pending(k) : o \in Orders /\ order[o].key = k
    BY DEF PendingInv, Shape, Orders, Pending
  <1>2. CASE BeginFirst(q, k, c)
    <2> DEFINE x == [NoQuote EXCEPT !.at = "count", !.key = k, !.code = c]
    <2>1. x \in Quote /\ x.key = k /\ x.at = "count" /\ x.drop = {} /\ x.promo = NoPromo
      BY DEF NoQuote, Quote, NoOrder
    <2>2. quote' = [quote EXCEPT ![q] = x] /\ KeyFree(k) /\ UNCHANGED <<order, promotion>>
      BY <1>2 DEF BeginFirst, Begin
    <2> HIDE DEF x
    <2>3. quote'[q] = x /\ Pending(k)' = {}
      BY <1>1, <1>2, <2>2 DEF BeginFirst, Pending, Orders
    <2>4. DropsItsOwn(q)'
      BY <2>1, <2>3 DEF DropsItsOwn, Reuses
    <2>5. DropsTheRest(q)'
      BY <2>1, <2>3 DEF DropsTheRest, Renews, Reuses
    <2> QED
      BY <2>1, <2>2, <2>4, <2>5, QuoteMoves
  <1>3. CASE BeginRequote(q, k, c) /\ c # NoCode
    <2>1. PICK o \in Newest(k) :
            Begin(q, k, [NoQuote EXCEPT !.at = "drop", !.key = k, !.code = c, !.drop = {o}])
      BY <1>3 DEF BeginRequote
    <2> DEFINE x == [NoQuote EXCEPT !.at = "drop", !.key = k, !.code = c, !.drop = {o}]
    <2>2. o \in Pending(k) /\ \A w \in Pending(k) : w <= o
      BY DEF Newest
    <2>3. o \in Nat /\ o \in Orders /\ order[o].key = k /\ order[o].status = "PENDING"
      BY <1>1, <2>2 DEF Pending
    <2>4. /\ x \in Quote /\ x.key = k /\ x.at = "drop" /\ x.code = c
          /\ x.drop = {o} /\ x.promo = NoPromo
      BY <2>3 DEF NoQuote, Quote, NoOrder
    <2>5. quote' = [quote EXCEPT ![q] = x] /\ KeyFree(k) /\ UNCHANGED <<order, promotion>>
      BY <2>1 DEF Begin
    <2> HIDE DEF x
    <2>6. quote'[q] = x /\ Pending(k)' = Pending(k) /\ Orders' = Orders
      BY <1>1, <2>5 DEF Pending, Orders
    <2>7. DropsItsOwn(q)'
      BY <1>3, <2>3, <2>4, <2>5, <2>6 DEF DropsItsOwn, Reuses
    <2>8. \A w \in Pending(k) : w <= Len(Legacy) \/ w = o
      <3>1. Len(Legacy) \in Nat
        BY ConstantsAssumption
      <3>2. SUFFICES ASSUME NEW w \in Pending(k), w # o PROVE w <= Len(Legacy)
        OBVIOUS
      <3>3. w \in Orders /\ w \in Nat /\ order[w].key = k /\ order[w].status = "PENDING"
        BY <1>1 DEF Pending
      <3>4. o <= Len(Legacy) \/ w <= Len(Legacy)
        BY <2>3, <3>2, <3>3 DEF PendingInv, OnePending
      <3>5. w <= o
        BY <2>2
      <3> QED
        BY <2>3, <3>1, <3>3, <3>4, <3>5
    <2>9. DropsTheRest(q)'
      BY <1>3, <2>4, <2>6, <2>8 DEF DropsTheRest, Renews, Reuses
    <2> QED
      BY <2>4, <2>5, <2>7, <2>9, QuoteMoves
  <1>4. CASE BeginReuse(q, k)
    <2>1. PICK o \in Newest(k) :
            Begin(q, k, [NoQuote EXCEPT !.at = "duplicates", !.key = k, !.existing = o])
      BY <1>4 DEF BeginReuse
    <2> DEFINE x == [NoQuote EXCEPT !.at = "duplicates", !.key = k, !.existing = o]
    <2>2. o \in Nat /\ o \in Orders /\ order[o].key = k
      BY <1>1 DEF Newest, Pending
    <2>3. /\ x \in Quote /\ x.key = k /\ x.at = "duplicates" /\ x.code = NoCode
          /\ x.drop = {} /\ x.existing = o /\ x.promo = NoPromo
      BY <2>2 DEF NoQuote, Quote, NoOrder
    <2>4. quote' = [quote EXCEPT ![q] = x] /\ KeyFree(k) /\ UNCHANGED <<order, promotion>>
      BY <2>1 DEF Begin
    <2> HIDE DEF x
    <2>5. quote'[q] = x /\ Orders' = Orders
      BY <1>1, <2>4 DEF Orders
    <2>6. DropsItsOwn(q)'
      BY <2>2, <2>3, <2>4, <2>5 DEF DropsItsOwn, Reuses
    <2>7. DropsTheRest(q)'
      BY <2>3, <2>5 DEF DropsTheRest, Renews, Reuses
    <2> QED
      BY <2>3, <2>4, <2>6, <2>7, QuoteMoves
  <1> QED
    BY <1>2, <1>3, <1>4

(* The steps of a quote between its start and its commit.                  *)
LEMMA ReadsKeep ==
  ASSUME PendingInv, NEW q \in Quotes,
         ReadDuplicates(q) \/ Drop(q) \/ Count(q) \/ Price(q)
  PROVE  PendingInv'
  <1>1. /\ quote \in [Quotes -> Quote] /\ quote[q] \in Quote
        /\ DropsItsOwn(q) /\ DropsTheRest(q)
        /\ UNCHANGED <<order, promotion>>
    BY DEF PendingInv, Shape, ReadDuplicates, Drop, Count, Price
  <1>2. Orders' = Orders /\ \A k : Pending(k)' = Pending(k)
    BY <1>1 DEF Orders, Pending
  <1>3. CASE ReadDuplicates(q)
    <2> DEFINE x == [quote[q] EXCEPT !.at = "drop", !.drop = Duplicates(q)]
    <2>1. quote[q].at = "duplicates" /\ quote' = [quote EXCEPT ![q] = x]
      BY <1>1, <1>3 DEF ReadDuplicates
    <2>2. Orders \subseteq Nat
      BY DEF PendingInv, Shape, Orders
    <2>3. /\ \A o \in Duplicates(q) : o \in Orders /\ order[o].key = quote[q].key
          /\ Duplicates(q) \subseteq Nat
          /\ quote[q].existing \notin Duplicates(q)
      BY <2>2 DEF Duplicates, Pending
    <2>4. /\ x \in Quote /\ x.at = "drop" /\ x.drop = Duplicates(q)
          /\ x.key = quote[q].key /\ x.code = quote[q].code
          /\ x.existing = quote[q].existing /\ x.promo = quote[q].promo
      BY <1>1, <2>3 DEF Quote
    <2> HIDE DEF x
    <2>5. quote'[q] = x
      BY <1>1, <2>1
    <2>6. quote[q].code = NoCode
      BY <1>1, <2>1 DEF DropsItsOwn
    <2>7. DropsItsOwn(q)'
      BY <1>1, <1>2, <2>1, <2>3, <2>4, <2>5 DEF DropsItsOwn, Reuses
    <2>8. DropsTheRest(q)'
      BY <1>2, <2>4, <2>5, <2>6 DEF DropsTheRest, Renews, Reuses, Duplicates
    <2> QED
      BY <1>1, <2>1, <2>4, <2>7, <2>8, QuoteMoves
  <1>4. CASE Drop(q)
    <2> DEFINE x == [quote[q] EXCEPT !.at = IF quote[q].code = NoCode THEN "reuse" ELSE "count"]
    <2>1. quote[q].at = "drop" /\ quote' = [quote EXCEPT ![q] = x]
      BY <1>1, <1>4 DEF Drop
    <2>2. /\ x \in Quote
          /\ x.at = IF quote[q].code = NoCode THEN "reuse" ELSE "count"
          /\ x.drop = quote[q].drop /\ x.key = quote[q].key /\ x.code = quote[q].code
          /\ x.existing = quote[q].existing /\ x.promo = quote[q].promo
      BY <1>1 DEF Quote
    <2> HIDE DEF x
    <2>3. quote'[q] = x
      BY <1>1, <2>1
    <2>4. DropsItsOwn(q)'
      BY <1>1, <1>2, <2>1, <2>2, <2>3 DEF DropsItsOwn, Reuses
    <2>5. DropsTheRest(q)'
      BY <1>1, <1>2, <2>1, <2>2, <2>3 DEF DropsTheRest, Renews, Reuses
    <2> QED
      BY <1>1, <2>1, <2>2, <2>4, <2>5, QuoteMoves
  <1>5. CASE Count(q) \/ Price(q)
    <2>1. PICK x \in Quote :
            /\ quote' = [quote EXCEPT ![q] = x]
            /\ quote[q].at \in {"count", "price"} /\ x.at \in {"price", "create"}
            /\ x.at # "create" => x.promo = quote[q].promo
            /\ x.drop = quote[q].drop /\ x.key = quote[q].key /\ x.code = quote[q].code
      <3>1. CASE Count(q)
        <4>1. PICK b \in BOOLEAN :
                quote' = [quote EXCEPT ![q] = [quote[q] EXCEPT !.at = "price", !.hasPaid = b]]
          BY <1>1, <3>1 DEF Count
        <4>2. [quote[q] EXCEPT !.at = "price", !.hasPaid = b] \in Quote
          BY <1>1 DEF Quote
        <4> QED
          BY <1>1, <3>1, <4>1, <4>2 DEF Count, Quote
      <3>2. CASE Price(q)
        <4>1. PICK p \in Promos \cup {NoPromo} :
                quote' = [quote EXCEPT ![q] = [quote[q] EXCEPT !.at = "create", !.promo = p]]
          <5>1. CASE \E p \in Best(q) :
                       quote' = [quote EXCEPT ![q].at = "create", ![q].promo = p]
            BY <1>1, <5>1 DEF Best
          <5>2. CASE quote' = [quote EXCEPT ![q].at = "create"]
            <6>1. [quote[q] EXCEPT !.at = "create", !.promo = quote[q].promo]
                    = [quote[q] EXCEPT !.at = "create"]
              BY <1>1 DEF Quote
            <6> QED
              BY <1>1, <5>2, <6>1 DEF Quote
          <5> QED
            BY <3>2, <5>1, <5>2 DEF Price
        <4>2. [quote[q] EXCEPT !.at = "create", !.promo = p] \in Quote
          BY <1>1 DEF Quote
        <4> QED
          BY <1>1, <3>2, <4>1, <4>2 DEF Price, Quote
      <3> QED
        BY <1>5, <3>1, <3>2
    <2>2. quote'[q] = x
      BY <1>1, <2>1
    <2>3. DropsItsOwn(q)'
      BY <1>1, <1>2, <2>1, <2>2 DEF DropsItsOwn, Reuses
    <2>4. DropsTheRest(q)'
      BY <1>1, <1>2, <2>1, <2>2 DEF DropsTheRest, Renews, Reuses
    <2> QED
      BY <1>1, <2>1, <2>3, <2>4, QuoteMoves
  <1> QED
    BY <1>3, <1>4, <1>5

(* Settlement and refunds make no order PENDING.                           *)
LEMMA OthersKeep ==
  ASSUME PendingInv, NEW o \in Orders, Settle(o) \/ Refund(o)
  PROVE  /\ PendingInv'
         /\ Orders' = Orders /\ \A w \in Orders : order'[w].promo = order[w].promo
  <1>1. /\ order \in Seq(OrderRow \cup {Gone}) /\ order[o] \in OrderRow
        /\ promotion' = promotion /\ quote' = quote
    <2>1. order[o].status # "DELETED" /\ order \in Seq(OrderRow \cup {Gone})
      BY DEF PendingInv, Shape, Settle, Refund
    <2>2. order[o] \in OrderRow \cup {Gone}
      BY <2>1 DEF Orders
    <2> QED
      BY <2>1, <2>2 DEF Gone, Settle, Refund
  <1>2. PICK s \in {"PAID", "REFUNDED"} : order' = [order EXCEPT ![o].status = s]
    BY DEF Settle, Refund
  <1>3. [order[o] EXCEPT !.status = s] \in OrderRow
    BY <1>1 DEF OrderRow
  <1>4. /\ order' \in Seq(OrderRow \cup {Gone}) /\ Orders' = Orders
        /\ \A w \in Orders : /\ order'[w].key = order[w].key /\ order'[w].promo = order[w].promo
                             /\ order'[w].status = "PENDING" => order[w].status = "PENDING"
    <2>1. order' = [order EXCEPT ![o] = [order[o] EXCEPT !.status = s]]
      BY <1>2
    <2>2. order' \in Seq(OrderRow \cup {Gone}) /\ Orders' = Orders
      BY <1>1, <1>3, <2>1 DEF Orders
    <2>3. \A w \in Orders \ {o} : order'[w] = order[w]
      BY <2>1 DEF Orders
    <2>4. order'[o] = [order[o] EXCEPT !.status = s]
      BY <2>1 DEF Orders
    <2> QED
      BY <1>1, <2>2, <2>3, <2>4 DEF OrderRow
  <1>5. Shape' /\ KeysAreHeld'
    BY <1>1, <1>4 DEF PendingInv, Shape, KeysAreHeld
  <1>6. \A q \in Quotes : DropsItsOwn(q)'
    BY <1>1, <1>4 DEF PendingInv, DropsItsOwn, Reuses
  <1>7. \A q \in Quotes : DropsTheRest(q)'
    <2>1. \A k : Pending(k)' \subseteq Pending(k)
      BY <1>4 DEF Pending
    <2> QED
      BY <1>1, <2>1 DEF PendingInv, DropsTheRest, Renews, Reuses
  <1>8. OnePending'
    BY <1>4 DEF PendingInv, OnePending
  <1> QED
    BY <1>4, <1>5, <1>6, <1>7, <1>8 DEF PendingInv

(* A commit leaves other quotes what they plan, as keys are held.          *)
LEMMA CommitKeeps ==
  ASSUME PendingInv, NEW q \in Quotes, Create(q) \/ Reuse(q)
  PROVE  PendingInv'
  <1> DEFINE k == quote[q].key
             new == Len(order) + 1
  <1>1. /\ Shape /\ KeysAreHeld /\ quote \in [Quotes -> Quote]
        /\ DropsItsOwn(q) /\ DropsTheRest(q)
        /\ Len(order) \in Nat
    BY DEF PendingInv, Shape
  <1>2. /\ order' \in Seq(OrderRow \cup {Gone})
        /\ \A o \in Orders :
             o \in Orders' /\ order'[o] = IF o \in quote[q].drop THEN Gone ELSE order[o]
        /\ Reuse(q) => Orders' = Orders
        /\ Create(q) => /\ new \notin Orders
                        /\ Orders' = Orders \cup {new}
                        /\ order'[new] = [status |-> "PENDING", key |-> k,
                                          promo |-> quote[q].promo]
    BY <1>1, CommitRows
  <1>3. /\ quote' = [quote EXCEPT ![q] = NoQuote] /\ promotion' = Counted(q)
        /\ quote[q].at \in {"create", "reuse"} /\ k \in Keys
    BY <1>1 DEF Create, Reuse, KeysAreHeld, Quote
  <1>4. NoQuote \in Quote /\ NoKey \notin Keys
    BY ConstantsAssumption DEF NoQuote, Quote, NoOrder
  <1>5. /\ quote'[q] = NoQuote /\ quote' \in [Quotes -> Quote]
        /\ \A r \in Quotes \ {q} : quote'[r] = quote[r]
    BY <1>1, <1>3, <1>4
  <1>6. Shape'
    <2>1. quote[q].drop \subseteq Orders /\ Orders \subseteq Nat
      BY <1>1 DEF DropsItsOwn, Shape, Orders
    <2>2. Orders = 1..Len(order)
      BY <1>1 DEF Shape, Orders
    <2>3. \A p \in Promos : Releases(q, p) \subseteq Orders
      BY <2>1 DEF Releases
    <2>4. \A p \in Promos : Change(q, p) \in Int
      <3>1. IsFiniteSet(Orders)
        BY <1>1, <2>2, FS_Interval
      <3>2. \A p \in Promos : Cardinality(Releases(q, p)) \in Nat
        BY <2>3, <3>1, FS_Subset, FS_CardinalityType
      <3> QED
        BY <3>2 DEF Change
    <2>5. promotion' \in [Promos -> Promotion]
      <3>1. ASSUME NEW p \in Promos
            PROVE  [promotion[p] EXCEPT !.usageCount = @ + Change(q, p)] \in Promotion
        <4>1. promotion[p] \in Promotion /\ Change(q, p) \in Int
          BY <1>1, <2>4 DEF Shape
        <4>2. promotion[p].usageCount + Change(q, p) \in Int
          BY <4>1 DEF Promotion
        <4> QED
          BY <4>1, <4>2 DEF Promotion
      <3> QED
        BY <1>3, <3>1 DEF Counted
    <2> QED
      BY <1>2, <1>5, <2>5 DEF Shape
  <1>7. KeysAreHeld'
    BY <1>1, <1>4, <1>5 DEF KeysAreHeld, NoQuote
  <1>8. ASSUME NEW r \in Quotes PROVE DropsItsOwn(r)' /\ DropsTheRest(r)'
    <2>1. CASE r = q
      BY <1>5, <2>1 DEF DropsItsOwn, DropsTheRest, Renews, Reuses, NoQuote
    <2>2. CASE r # q /\ quote[r].key = NoKey
      <3>1. quote'[r] = quote[r] /\ quote[r].at = "idle" /\ DropsItsOwn(r)
        BY <1>1, <1>5, <2>2 DEF KeysAreHeld, PendingInv
      <3> QED
        BY <3>1 DEF DropsItsOwn, DropsTheRest, Renews, Reuses
    <2>3. CASE r # q /\ quote[r].key # NoKey
      <3>1. quote'[r] = quote[r] /\ quote[r].key # k
        BY <1>1, <1>4, <1>5, <2>3 DEF KeysAreHeld
      <3>2. \A o \in Orders : order[o].key = quote[r].key => o \in Orders' /\ order'[o] = order[o]
        BY <1>1, <1>2, <3>1 DEF DropsItsOwn
      <3>3. Gone.key = NoKey
        BY DEF Gone
      <3>4. Pending(quote[r].key)' \subseteq Pending(quote[r].key)
        <4>1. SUFFICES ASSUME NEW o \in Orders', order'[o].key = quote[r].key,
                              order'[o].status = "PENDING"
                       PROVE  o \in Orders /\ order[o].key = quote[r].key
                              /\ order[o].status = "PENDING"
          BY <3>1 DEF Pending
        <4>2. o \in Orders
          BY <1>2, <3>1, <4>1
        <4> QED
          BY <1>2, <2>3, <3>3, <4>1, <4>2
      <3>5. DropsItsOwn(r) /\ DropsTheRest(r)
        BY DEF PendingInv
      <3>6. DropsItsOwn(r)'
        BY <3>1, <3>2, <3>5 DEF DropsItsOwn, Reuses
      <3>7. DropsTheRest(r)'
        BY <3>1, <3>4, <3>5 DEF DropsTheRest, Renews, Reuses
      <3> QED
        BY <3>6, <3>7
    <2> QED
      BY <2>1, <2>2, <2>3
  <1>9. OnePending'
    <2>1. \A o \in Orders' :
            order'[o].status = "PENDING" =>
              \/ o \in Orders /\ o \notin quote[q].drop /\ order'[o] = order[o]
              \/ Create(q) /\ o = new /\ order'[o].key = k
      BY <1>2 DEF Gone
    <2>2. Create(q) => \A o \in Orders \ quote[q].drop :
            order[o].key = k /\ order[o].status = "PENDING" => o <= Len(Legacy)
      BY <1>1 DEF Create, DropsTheRest, Renews, Pending
    <2> QED
      BY <2>1, <2>2 DEF PendingInv, OnePending
  <1> QED
    BY <1>6, <1>7, <1>8, <1>9 DEF PendingInv

(* Edits of promotions touch no order and no quote.                        *)
LEMMA EditsKeep ==
  ASSUME PendingInv, NEW p \in Promos, Toggle(p) \/ DeletePromotion(p)
  PROVE  PendingInv'
  <1>1. order' = order /\ quote' = quote /\ promotion' \in [Promos -> Promotion]
    BY DEF PendingInv, Shape, Toggle, DeletePromotion, Promotion
  <1>2. Orders' = Orders /\ \A k : Pending(k)' = Pending(k)
    BY <1>1 DEF Orders, Pending
  <1>3. Shape' /\ KeysAreHeld' /\ OnePending'
    BY <1>1, <1>2 DEF PendingInv, Shape, KeysAreHeld, OnePending
  <1>4. \A q \in Quotes : DropsItsOwn(q)' /\ DropsTheRest(q)'
    BY <1>1, <1>2 DEF PendingInv, DropsItsOwn, DropsTheRest, Renews, Reuses
  <1> QED
    BY <1>3, <1>4 DEF PendingInv

(* The invariant holds at first: no quote runs and all orders are old.     *)
LEMMA InitPending == Init => PendingInv
  <1> SUFFICES ASSUME Init PROVE PendingInv
    OBVIOUS
  <1>1. /\ order = Legacy /\ Legacy \in Seq(OrderRow) /\ Orders = 1..Len(Legacy)
        /\ Len(Legacy) \in Nat
    BY ConstantsAssumption DEF Init, Orders
  <1>2. NoQuote \in Quote /\ NoKey \notin Keys
    BY ConstantsAssumption DEF NoQuote, Quote, NoOrder
  <1>3. Shape
    <2>1. \A p \in Promos : Cardinality(Users(p)) \in Int
      <3>1. IsFiniteSet(Orders)
        BY <1>1, FS_Interval
      <3>2. \A p \in Promos : Users(p) \subseteq Orders
        BY DEF Users
      <3> QED
        BY <3>1, <3>2, FS_Subset, FS_CardinalityType
    <2>2. promotion \in [Promos -> Promotion]
      BY <2>1 DEF Init, Promotion
    <2>3. order \in Seq(OrderRow \cup {Gone})
      BY <1>1
    <2> QED
      BY <1>2, <2>2, <2>3 DEF Init, Shape
  <1>4. KeysAreHeld /\ \A q \in Quotes : DropsItsOwn(q) /\ DropsTheRest(q)
    BY <1>2 DEF Init, KeysAreHeld, DropsItsOwn, DropsTheRest, Renews, Reuses, NoQuote
  <1>5. OnePending
    BY <1>1 DEF OnePending
  <1> QED
    BY <1>3, <1>4, <1>5 DEF PendingInv

(* Every step keeps the invariant.                                         *)
LEMMA NextPending == PendingInv /\ [Next]_vars => PendingInv'
  <1> SUFFICES ASSUME PendingInv, [Next]_vars PROVE PendingInv'
    OBVIOUS
  <1>1. ASSUME NEW q \in Quotes, QuoteStep(q) PROVE PendingInv'
    <2>1. ASSUME NEW k \in Keys, NEW c \in Codes \cup {NoCode}, BeginFirst(q, k, c)
          PROVE  PendingInv'
      BY <2>1, BeginKeeps
    <2>2. ASSUME NEW k \in Keys, NEW c \in Codes, BeginRequote(q, k, c) PROVE PendingInv'
      BY <2>2, BeginKeeps, ConstantsAssumption
    <2>3. ASSUME NEW k \in Keys, BeginReuse(q, k) PROVE PendingInv'
      BY <2>3, BeginKeeps
    <2> QED
      BY <1>1, <2>1, <2>2, <2>3, ReadsKeep, CommitKeeps, RollBackKeeps DEF QuoteStep
  <1>2. ASSUME NEW o \in Orders, Settle(o) \/ Refund(o) PROVE PendingInv'
    BY <1>2, OthersKeep
  <1>3. ASSUME NEW p \in Promos, Toggle(p) \/ DeletePromotion(p) PROVE PendingInv'
    BY <1>3, EditsKeep
  <1>4. CASE UNCHANGED vars
    <2>1. Orders' = Orders /\ \A k : Pending(k)' = Pending(k)
      BY <1>4 DEF vars, Orders, Pending
    <2> QED
      BY <1>4, <2>1 DEF vars, PendingInv, Shape, KeysAreHeld, OnePending, DropsItsOwn,
                        DropsTheRest, Renews, Reuses
  <1> QED
    BY <1>1, <1>2, <1>3, <1>4 DEF Next

(* OnePending holds of every state: quotes of one player and item exclude  *)
(* each other, and what a quote does not drop is older than all of them.   *)
THEOREM OnePendingCorrect == Spec => []OnePending
  <1>1. PendingInv => OnePending
    BY DEF PendingInv
  <1> QED
    BY <1>1, InitPending, NextPending, PTL DEF Spec

(* ReuseKeepsNewest holds of every step.                                   *)
THEOREM ReuseCorrect == Spec => ReuseKeepsNewest
  <1>1. ASSUME PendingInv, [Next]_vars, NEW q \in Quotes, Reuse(q)
        PROVE  /\ order'[quote[q].existing].status # "DELETED"
               /\ \A o \in Orders \ {quote[q].existing} :
                    order[o].key = quote[q].key => order'[o].status # "PENDING"
    <2>1. /\ Shape /\ KeysAreHeld /\ DropsItsOwn(q) /\ DropsTheRest(q)
          /\ Reuses(q) /\ quote[q] \in Quote
      BY <1>1 DEF PendingInv, Shape, Reuse, Reuses
    <2>2. \A o \in Orders : order'[o] = IF o \in quote[q].drop THEN Gone ELSE order[o]
      BY <1>1, <2>1, CommitRows
    <2>3. order'[quote[q].existing].status # "DELETED"
      <3> DEFINE e == quote[q].existing
      <3>1. e \in Orders \ quote[q].drop /\ order[e].key = quote[q].key
        BY <2>1 DEF DropsItsOwn
      <3>2. quote[q].key # NoKey
        BY <1>1, <2>1 DEF KeysAreHeld, Reuse
      <3>3. order[e] \in OrderRow \cup {Gone}
        BY <2>1, <3>1 DEF Shape, Orders
      <3>4. order[e] \in OrderRow
        BY <3>1, <3>2, <3>3 DEF Gone
      <3> QED
        BY <2>2, <3>1, <3>4 DEF OrderRow
    <2>4. ASSUME NEW o \in Orders \ {quote[q].existing}, order[o].key = quote[q].key
          PROVE  order'[o].status # "PENDING"
      BY <2>1, <2>2, <2>4 DEF DropsTheRest, Pending, Gone
    <2> QED
      BY <2>3, <2>4
  <1>2. PendingInv /\ [Next]_vars =>
          [\A q \in Quotes : Reuse(q) =>
             /\ order'[quote[q].existing].status # "DELETED"
             /\ \A o \in Orders \ {quote[q].existing} :
                  order[o].key = quote[q].key => order'[o].status # "PENDING"]_vars
    BY <1>1
  <1> QED
    BY <1>2, InitPending, NextPending, PTL DEF Spec, ReuseKeepsNewest

--------------------------------------------------------------------------------
(* The counters                                                            *)

(* Orders, users and releases are finitely many.                           *)
LEMMA FinitelyMany ==
  ASSUME PendingInv
  PROVE  /\ \A p : IsFiniteSet(Users(p)) /\ Cardinality(Users(p)) \in Nat
         /\ \A q \in Quotes : \A p : /\ Releases(q, p) \subseteq Users(p)
                                     /\ IsFiniteSet(Releases(q, p))
                                     /\ Cardinality(Releases(q, p)) \in Nat
  <1>1. Orders = 1..Len(order) /\ Len(order) \in Nat
    BY DEF PendingInv, Shape, Orders
  <1>2. IsFiniteSet(Orders)
    BY <1>1, FS_Interval
  <1>3. \A p : Users(p) \subseteq Orders
    BY DEF Users
  <1>4. \A q \in Quotes : \A p : Releases(q, p) \subseteq Users(p)
    BY DEF PendingInv, DropsItsOwn, Releases, Users
  <1>5. \A p : IsFiniteSet(Users(p)) /\ Cardinality(Users(p)) \in Nat
    BY <1>2, <1>3, FS_Subset, FS_CardinalityType
  <1> QED
    BY <1>4, <1>5, FS_Subset, FS_CardinalityType

(* The deletions and the new order of a commit change the number of users  *)
(* of a promotion as its counter.                                          *)
LEMMA CommitCounts ==
  ASSUME PendingInv, AllCounted, NEW q \in Quotes, Create(q) \/ Reuse(q)
  PROVE  AllCounted'
  <1> DEFINE new == Len(order) + 1
  <1>1. Shape /\ KeysAreHeld /\ DropsItsOwn(q)
    BY DEF PendingInv
  <1>2. /\ \A o \in Orders :
             o \in Orders' /\ order'[o] = IF o \in quote[q].drop THEN Gone ELSE order[o]
        /\ Reuse(q) => Orders' = Orders /\ quote[q].promo = NoPromo
        /\ Create(q) => /\ new \notin Orders
                        /\ Orders' = Orders \cup {new}
                        /\ order'[new].promo = quote[q].promo
    <2>1. Reuse(q) => quote[q].promo = NoPromo
      BY <1>1 DEF DropsItsOwn, Reuse
    <2>2. Create(q) => order'[new] = [status |-> "PENDING", key |-> quote[q].key,
                                      promo |-> quote[q].promo]
      BY <1>1, CommitRows
    <2>3. Create(q) => order'[new].promo = quote[q].promo
      BY <2>2
    <2> QED
      BY <1>1, <2>1, <2>3, CommitRows
  <1>3. SUFFICES ASSUME NEW p \in Promos
                 PROVE  promotion'[p].usageCount = Cardinality(Users(p)')
    BY DEF AllCounted
  <1>4. Gone.promo # p /\ NoPromo # p
    BY ConstantsAssumption DEF Gone
  <1>5. /\ promotion[p].usageCount = Cardinality(Users(p))
        /\ promotion'[p].usageCount = promotion[p].usageCount + Change(q, p)
    BY <1>1 DEF AllCounted, Create, Reuse, Counted, Shape, Promotion
  <1> DEFINE kept == Users(p) \ Releases(q, p)
  <1>6. /\ IsFiniteSet(kept) /\ Cardinality(kept) \in Int
        /\ Cardinality(kept) = Cardinality(Users(p)) - Cardinality(Releases(q, p))
    <2>1. Users(p) \cap Releases(q, p) = Releases(q, p)
      BY FinitelyMany
    <2>2. IsFiniteSet(Users(p))
      BY FinitelyMany
    <2> HIDE DEF kept
    <2>3. /\ IsFiniteSet(kept)
          /\ Cardinality(kept) = Cardinality(Users(p)) - Cardinality(Users(p) \cap Releases(q, p))
      BY <2>2, FS_Difference DEF kept
    <2>4. Cardinality(kept) \in Nat
      BY <2>3, FS_CardinalityType
    <2>5. Cardinality(Users(p) \cap Releases(q, p)) = Cardinality(Releases(q, p))
      BY <2>1
    <2> QED
      BY <2>3, <2>4, <2>5
  <1>7. \A o \in Orders : order'[o].promo = p <=> o \in kept
    BY <1>2, <1>4 DEF Users, Releases
  <1>8. CASE Create(q) /\ quote[q].promo = p
    <2>1. Users(p)' = kept \cup {new} /\ new \notin kept
      BY <1>2, <1>7, <1>8 DEF Users
    <2>2. Cardinality(Users(p)') = Cardinality(kept) + 1
      BY <1>6, <2>1, FS_AddElement
    <2>3. Change(q, p) = 1 - Cardinality(Releases(q, p))
      BY <1>8 DEF Change
    <2> QED
      BY <1>5, <1>6, <2>2, <2>3, FinitelyMany
  <1>9. CASE ~(Create(q) /\ quote[q].promo = p)
    <2>1. Users(p)' = kept
      BY <1>2, <1>7, <1>9 DEF Users
    <2>2. Change(q, p) = 0 - Cardinality(Releases(q, p))
      BY <1>2, <1>4, <1>9 DEF Change
    <2> QED
      BY <1>5, <1>6, <2>1, <2>2, FinitelyMany
  <1> QED
    BY <1>8, <1>9

(* Every other step leaves counters and users alone.                       *)
LEMMA NextCounted == PendingInv /\ AllCounted /\ [Next]_vars => AllCounted'
  <1> SUFFICES ASSUME PendingInv, AllCounted, [Next]_vars PROVE AllCounted'
    OBVIOUS
  <1>1. ASSUME UNCHANGED <<order, promotion>> PROVE AllCounted'
    BY <1>1 DEF AllCounted, Users, Orders
  <1>2. ASSUME NEW q \in Quotes, QuoteStep(q) PROVE AllCounted'
    <2>1. CASE Create(q) \/ Reuse(q)
      BY <2>1, CommitCounts
    <2>2. CASE ~(Create(q) \/ Reuse(q))
      <3>1. UNCHANGED <<order, promotion>>
        BY <1>2, <2>2 DEF QuoteStep, BeginFirst, BeginRequote, BeginReuse, Begin,
                          ReadDuplicates, Drop, Count, Price, RollBack
      <3> QED
        BY <1>1, <3>1
    <2> QED
      BY <2>1, <2>2
  <1>3. ASSUME NEW o \in Orders, Settle(o) \/ Refund(o) PROVE AllCounted'
    <2>1. Orders' = Orders /\ \A w \in Orders : order'[w].promo = order[w].promo
      BY <1>3, OthersKeep
    <2>2. \A p : Users(p)' = Users(p)
      BY <2>1 DEF Users
    <2> QED
      BY <1>3, <2>2 DEF AllCounted, Settle, Refund
  <1>4. ASSUME NEW p \in Promos, Toggle(p) \/ DeletePromotion(p) PROVE AllCounted'
    <2>1. order' = order /\ \A r \in Promos : promotion'[r].usageCount = promotion[r].usageCount
      BY <1>4 DEF PendingInv, Shape, Promotion, Toggle, DeletePromotion
    <2> QED
      BY <2>1 DEF AllCounted, Users, Orders
  <1> QED
    BY <1>1, <1>2, <1>3, <1>4 DEF Next, vars

(* Every count is right, and so none is negative.                          *)
LEMMA CountsAreRight == Spec => [](TypeOK /\ UsageCounted)
  <1>1. Init => AllCounted
    BY DEF Init, AllCounted
  <1>2. PendingInv /\ AllCounted => TypeOK /\ UsageCounted
    BY FinitelyMany DEF PendingInv, Shape, AllCounted, TypeOK, UsageCounted
  <1> QED
    BY <1>1, <1>2, InitPending, NextPending, NextCounted, PTL DEF Spec

(* UsageCounted holds of every state: checkouts, reuses and deletions keep *)
(* the counter of a promotion at the number of orders that use it.         *)
THEOREM UsageCorrect == Spec => []UsageCounted
  BY CountsAreRight, PTL

(* TypeOK holds of every state, and no counter is decremented below zero.  *)
THEOREM TypeCorrect == Spec => []TypeOK
  BY CountsAreRight, PTL

--------------------------------------------------------------------------------
(* The limit                                                               *)

(* The quotes about to use a promotion are finitely many.                  *)
LEMMA TakersAreFinite ==
  ASSUME NEW p
  PROVE  /\ Takers(p) \subseteq Quotes /\ IsFiniteSet(Takers(p))
         /\ Cardinality(Takers(p)) \in Nat
         /\ Cardinality(Takers(p)) <= Cardinality(Quotes)
         /\ Cardinality(Quotes) \in Nat
  <1>1. Takers(p) \subseteq Quotes
    BY DEF Takers
  <1>2. IsFiniteSet(Quotes)
    BY ConstantsAssumption
  <1>3. IsFiniteSet(Takers(p)) /\ Cardinality(Takers(p)) <= Cardinality(Quotes)
    BY <1>1, <1>2, FS_Subset
  <1>4. Cardinality(Takers(p)) \in Nat /\ Cardinality(Quotes) \in Nat
    BY <1>2, <1>3, FS_CardinalityType
  <1> QED
    BY <1>1, <1>3, <1>4

(* Fewer uses and fewer takers are no worse.                               *)
LEMMA FewerTakers ==
  ASSUME Shape, Shape', TakersCounted, NEW p \in Promos,
         promotion'[p].usageCount <= promotion[p].usageCount,
         Takers(p)' \subseteq Takers(p)
  PROVE  promotion'[p].usageCount + Cardinality(Takers(p)') < Limit[p] + Cardinality(Quotes)
  <1>1. promotion[p].usageCount \in Int /\ promotion'[p].usageCount \in Int
    BY DEF Shape, Promotion
  <1>2. /\ IsFiniteSet(Takers(p)) /\ Cardinality(Takers(p)) \in Nat /\ Cardinality(Quotes) \in Nat
    BY TakersAreFinite
  <1>3. IsFiniteSet(Takers(p)') /\ Cardinality(Takers(p)') <= Cardinality(Takers(p))
    BY <1>2, FS_Subset
  <1>4. Cardinality(Takers(p)') \in Nat
    BY <1>3, FS_CardinalityType
  <1>5. promotion[p].usageCount + Cardinality(Takers(p)) < Limit[p] + Cardinality(Quotes)
    BY DEF TakersCounted
  <1>6. Limit[p] \in Nat
    BY ConstantsAssumption
  <1> QED
    BY <1>1, <1>2, <1>3, <1>4, <1>5, <1>6

(* A quote's statements move no counter; only Price makes it a taker, and  *)
(* only while the counter is below the limit.                              *)
LEMMA StatementsTake ==
  ASSUME PendingInv, PendingInv', TakersCounted, NEW q \in Quotes, NEW p \in Promos,
         QuoteStep(q), ~Create(q), ~Reuse(q)
  PROVE  promotion'[p].usageCount + Cardinality(Takers(p)') < Limit[p] + Cardinality(Quotes)
  <1>1. /\ UNCHANGED <<order, promotion>>
        /\ \A r \in Quotes \ {q} : quote'[r] = quote[r]
        /\ quote \in [Quotes -> Quote]
    BY DEF PendingInv, Shape, QuoteStep, BeginFirst, BeginRequote, BeginReuse, Begin,
           ReadDuplicates, Drop, Count, Price, RollBack
  <1>2. promotion[p].usageCount \in Int /\ Limit[p] \in Nat
    BY ConstantsAssumption DEF PendingInv, Shape, Promotion
  <1>3. \A r \in Quotes \ {q} : r \in Takers(p)' => r \in Takers(p)
    BY <1>1 DEF Takers, Releases
  <1>4. CASE Takers(p)' \subseteq Takers(p)
    BY <1>1, <1>2, <1>4, FewerTakers DEF PendingInv
  <1>5. CASE q \in Takers(p)' /\ q \notin Takers(p)
    <2>1. quote'[q].at = "create" /\ quote'[q].promo = p /\ Releases(q, p)' = {}
      BY <1>5 DEF Takers
    <2>2. Price(q)
      <3>1. quote[q] \in Quote
        BY <1>1
      <3>2. ASSUME NEW k \in Keys, NEW c, BeginFirst(q, k, c) PROVE FALSE
        BY <1>1, <2>1, <3>2 DEF BeginFirst, Begin, NoQuote
      <3>3. ASSUME NEW k \in Keys, NEW c, BeginRequote(q, k, c) PROVE FALSE
        BY <1>1, <2>1, <3>3 DEF BeginRequote, Begin, NoQuote
      <3>4. ASSUME NEW k \in Keys, BeginReuse(q, k) PROVE FALSE
        BY <1>1, <2>1, <3>4 DEF BeginReuse, Begin, NoQuote
      <3>5. ~ReadDuplicates(q) /\ ~Count(q)
        BY <1>1, <2>1, <3>1 DEF ReadDuplicates, Count, Quote
      <3>6. ~Drop(q) /\ ~RollBack(q)
        BY <1>1, <2>1, <3>1 DEF Drop, RollBack, NoQuote, Quote
      <3> QED
        BY <3>2, <3>3, <3>4, <3>5, <3>6 DEF QuoteStep
    <2>3. quote[q].at = "price" /\ quote[q].promo = NoPromo /\ p # NoPromo
      BY <2>2, ConstantsAssumption DEF Price, PendingInv, DropsItsOwn
    <2>4. quote'[q].drop = quote[q].drop /\ p \in Best(q)
      BY <1>1, <2>1, <2>2, <2>3 DEF Price, Quote
    <2>5. WithinLimit(q, p) /\ Releases(q, p) = {}
      BY <1>1, <2>1, <2>4 DEF Best, Applies, Releases
    <2>6. promotion[p].usageCount < Limit[p]
      BY <1>2, <2>5, FS_EmptySet DEF WithinLimit
    <2>7. /\ Cardinality(Quotes) \in Nat
          /\ Cardinality(Takers(p)') \in Nat /\ Cardinality(Takers(p)') <= Cardinality(Quotes)
      <3>1. Takers(p)' \subseteq Quotes
        BY DEF Takers
      <3>2. IsFiniteSet(Quotes)
        BY ConstantsAssumption
      <3>3. IsFiniteSet(Takers(p)') /\ Cardinality(Takers(p)') <= Cardinality(Quotes)
        BY <3>1, <3>2, FS_Subset
      <3> QED
        BY <3>2, <3>3, FS_CardinalityType
    <2> QED
      BY <1>1, <1>2, <2>6, <2>7
  <1>6. \/ q \in Takers(p)' /\ q \notin Takers(p)
        \/ Takers(p)' \subseteq Takers(p)
    <2>1. Takers(p)' \subseteq Quotes
      BY DEF Takers
    <2> QED
      BY <1>3, <2>1
  <1> QED
    BY <1>4, <1>5, <1>6

(* A commit that uses a promotion once more has one taker less.            *)
LEMMA CommitsTake ==
  ASSUME PendingInv, PendingInv', TakersCounted, NEW q \in Quotes, NEW p \in Promos,
         Create(q) \/ Reuse(q)
  PROVE  promotion'[p].usageCount + Cardinality(Takers(p)') < Limit[p] + Cardinality(Quotes)
  <1>1. /\ Shape /\ Shape' /\ KeysAreHeld /\ quote \in [Quotes -> Quote]
        /\ quote'[q] = NoQuote
        /\ \A r \in Quotes \ {q} : quote'[r] = quote[r]
    BY DEF PendingInv, Shape, Create, Reuse
  <1>2. ASSUME NEW r \in Quotes \ {q}, NEW o \in quote[r].drop PROVE order'[o] = order[o]
    <2>1. o \in Orders /\ order[o].key = quote[r].key /\ quote[r].at # "idle"
      BY <1>2 DEF PendingInv, DropsItsOwn
    <2>2. quote[r].key # quote[q].key
      BY <2>1 DEF PendingInv, KeysAreHeld
    <2>3. o \notin quote[q].drop
      BY <2>1, <2>2 DEF PendingInv, DropsItsOwn
    <2> QED
      BY <1>1, <2>1, <2>3, CommitRows
  <1>3. \A r \in Quotes \ {q} : r \in Takers(p)' => r \in Takers(p)
    BY <1>1, <1>2 DEF Takers, Releases
  <1>4. q \notin Takers(p)'
    BY <1>1 DEF Takers, NoQuote
  <1>5. /\ promotion[p].usageCount \in Int
        /\ promotion'[p].usageCount = promotion[p].usageCount + Change(q, p)
    BY <1>1 DEF Create, Reuse, Counted, Shape, Promotion
  <1>6. Cardinality(Releases(q, p)) \in Nat /\ IsFiniteSet(Releases(q, p))
    BY FinitelyMany
  <1>7. CASE q \in Takers(p)
    <2>1. Change(q, p) = 1
      BY <1>7, FS_EmptySet DEF Takers, Change
    <2>2. Takers(p)' \subseteq Takers(p) \ {q}
      BY <1>3, <1>4 DEF Takers
    <2>3. IsFiniteSet(Takers(p)) /\ Cardinality(Takers(p)) \in Nat /\ Cardinality(Quotes) \in Nat
      BY TakersAreFinite
    <2>4. /\ IsFiniteSet(Takers(p) \ {q})
          /\ Cardinality(Takers(p) \ {q}) = Cardinality(Takers(p)) - 1
      BY <1>7, <2>3, FS_RemoveElement
    <2>5. /\ IsFiniteSet(Takers(p)')
          /\ Cardinality(Takers(p)') <= Cardinality(Takers(p) \ {q})
      BY <2>2, <2>4, FS_Subset
    <2>6. Cardinality(Takers(p)') \in Nat
      BY <2>5, FS_CardinalityType
    <2>7. promotion[p].usageCount + Cardinality(Takers(p)) < Limit[p] + Cardinality(Quotes)
      BY DEF TakersCounted
    <2>8. Limit[p] \in Nat
      BY ConstantsAssumption
    <2> QED
      BY <1>5, <2>1, <2>3, <2>4, <2>5, <2>6, <2>7, <2>8
  <1>8. CASE q \notin Takers(p)
    <2>1. Change(q, p) <= 0
      <3>1. CASE quote[q].promo = p
        <4>1. Create(q)
          BY <3>1, ConstantsAssumption DEF PendingInv, DropsItsOwn, Reuse
        <4>2. Releases(q, p) # {}
          BY <1>8, <3>1, <4>1 DEF Takers, Create
        <4>3. Cardinality(Releases(q, p)) # 0
          BY <1>6, <4>2, FS_EmptySet
        <4> QED
          BY <1>6, <3>1, <4>3 DEF Change
      <3>2. CASE quote[q].promo # p
        BY <1>6, <3>2 DEF Change
      <3> QED
        BY <3>1, <3>2
    <2>2. Change(q, p) \in Int
      BY <1>6 DEF Change
    <2>3. promotion'[p].usageCount <= promotion[p].usageCount
      BY <1>5, <2>1, <2>2
    <2>4. Takers(p)' \subseteq Takers(p)
      BY <1>3, <1>4 DEF Takers
    <2> QED
      BY <1>1, <2>3, <2>4, FewerTakers
  <1> QED
    BY <1>7, <1>8

(* Every step keeps room for the quotes that are about to take a use.      *)
LEMMA NextTakers ==
  PendingInv /\ PendingInv' /\ TakersCounted /\ [Next]_vars => TakersCounted'
  <1> SUFFICES ASSUME PendingInv, PendingInv', TakersCounted, [Next]_vars, NEW p \in Promos
               PROVE  promotion'[p].usageCount + Cardinality(Takers(p)')
                        < Limit[p] + Cardinality(Quotes)
    BY DEF TakersCounted
  <1>1. Shape /\ Shape' /\ promotion[p].usageCount \in Int
    BY DEF PendingInv, Shape, Promotion
  <1>2. ASSUME NEW q \in Quotes, QuoteStep(q)
        PROVE  promotion'[p].usageCount + Cardinality(Takers(p)')
                 < Limit[p] + Cardinality(Quotes)
    BY <1>2, StatementsTake, CommitsTake
  <1>3. ASSUME NEW o \in Orders, Settle(o) \/ Refund(o)
        PROVE  promotion'[p].usageCount + Cardinality(Takers(p)')
                 < Limit[p] + Cardinality(Quotes)
    <2>1. /\ \A w \in Orders : order'[w].promo = order[w].promo
          /\ promotion' = promotion /\ quote' = quote
      BY <1>3, OthersKeep DEF Settle, Refund
    <2>2. \A r \in Quotes : Releases(r, p)' = Releases(r, p)
      BY <2>1 DEF Releases, PendingInv, DropsItsOwn
    <2>3. Takers(p)' \subseteq Takers(p)
      BY <2>1, <2>2 DEF Takers
    <2> QED
      BY <1>1, <2>1, <2>3, FewerTakers
  <1>4. ASSUME NEW r \in Promos, Toggle(r) \/ DeletePromotion(r)
        PROVE  promotion'[p].usageCount + Cardinality(Takers(p)')
                 < Limit[p] + Cardinality(Quotes)
    <2>1. /\ promotion'[p].usageCount = promotion[p].usageCount
          /\ order' = order /\ quote' = quote
      BY <1>1, <1>4 DEF Shape, Promotion, Toggle, DeletePromotion
    <2>2. Takers(p)' \subseteq Takers(p)
      BY <2>1 DEF Takers, Releases
    <2> QED
      BY <1>1, <2>1, <2>2, FewerTakers
  <1>5. CASE UNCHANGED vars
    <2>1. Takers(p)' \subseteq Takers(p) /\ promotion' = promotion
      BY <1>5 DEF vars, Takers, Releases
    <2> QED
      BY <1>1, <2>1, FewerTakers
  <1> QED
    BY <1>2, <1>3, <1>4, <1>5 DEF Next

(* OverrunBounded holds of every state: a promotion is overrun by one use  *)
(* per quote that found it below its limit, and no more.                   *)
THEOREM OverrunCorrect == Spec => []OverrunBounded
  <1>1. Init => TakersCounted
    <2> SUFFICES ASSUME Init, NEW p \in Promos
                 PROVE  promotion[p].usageCount + Cardinality(Takers(p))
                          < Limit[p] + Cardinality(Quotes)
      BY DEF TakersCounted
    <2>1. Takers(p) = {}
      BY DEF Init, Takers, NoQuote
    <2>2. Users(p) = {o \in DOMAIN Legacy : Legacy[o].promo = p}
      BY DEF Init, Users, Orders
    <2>3. promotion[p].usageCount = Cardinality(Users(p)) /\ Cardinality(Users(p)) \in Nat
      BY InitPending, FinitelyMany DEF Init
    <2>4. Cardinality(Users(p)) <= Limit[p] /\ Limit[p] \in Nat
      BY <2>2, ConstantsAssumption
    <2>5. Cardinality(Quotes) \in Nat /\ Cardinality(Quotes) # 0
      BY ConstantsAssumption, FS_EmptySet, FS_CardinalityType
    <2>6. Cardinality(Takers(p)) = 0
      BY <2>1, FS_EmptySet
    <2> QED
      BY <2>3, <2>4, <2>5, <2>6
  <1>2. PendingInv /\ TakersCounted => OverrunBounded
    <2> SUFFICES ASSUME PendingInv, TakersCounted, NEW p \in Promos
                 PROVE  promotion[p].usageCount < Limit[p] + Cardinality(Quotes)
      BY DEF OverrunBounded
    <2>1. /\ promotion[p].usageCount \in Int
          /\ promotion[p].usageCount + Cardinality(Takers(p)) < Limit[p] + Cardinality(Quotes)
      BY DEF PendingInv, Shape, Promotion, TakersCounted
    <2>2. Limit[p] \in Nat
      BY ConstantsAssumption
    <2>3. Cardinality(Takers(p)) \in Nat /\ Cardinality(Quotes) \in Nat
      BY TakersAreFinite
    <2> QED
      BY <2>1, <2>2, <2>3
  <1> QED
    BY <1>1, <1>2, InitPending, NextPending, NextTakers, PTL DEF Spec

================================================================================
