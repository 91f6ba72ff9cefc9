SPECIFICATION FairSpec
CONSTANTS
  seller1 = seller1
  buyer1 = buyer1
  buyer2 = buyer2
  t1 = t1
  t2 = t2
  m1 = m1
  m2 = m2
  Players = {seller1, buyer1, buyer2}
  NoPlayer = NoPlayer
  Listings = {l1}
  NoListing = NoListing
  Price <- MCPrice
  Trades = {t1, t2}
  NoTrade = NoTrade
  Memo <- MCMemo
  Memos = {m1, m2}
  Amounts = {1}
  Calls = {c1, c2}
  Owned <- MCOwned
  MaxPayments = 2
  MaxFaults = 0
CHECK_DEADLOCK FALSE
PROPERTIES
  TransferEnds
