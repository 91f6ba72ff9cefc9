SPECIFICATION Spec
CONSTANTS
  a = a
  j = j
  i = i
  welcome = welcome
  coupon = coupon
  summer = summer
  Players = {a}
  Items = {i, j}
  NoKey = NoKey
  Promos = {welcome, coupon}
  NoPromo = NoPromo
  Codes = {summer}
  NoCode = NoCode
  CodeOf <- MCCodeOf
  Limit <- MCLimit
  FirstPurchase = {welcome}
  Discount <- MCDiscount
  Legacy <- MCLegacy
  Quotes = {q1, q2}
  MaxOrders = 4
SYMMETRY Symmetry
INVARIANTS
  TypeOK
  OnePending
  UsageCounted
  OverrunBounded
PROPERTIES
  ReuseKeepsNewest
