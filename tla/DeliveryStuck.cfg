\* One payment, submitted by its buyer and found by the watcher, with the number
\* of attempts that env.ts sets by default.
SPECIFICATION FairSpec
CONSTANTS
  o1 = o1
  m1 = m1
  m2 = m2
  p1 = p1
  Orders = {o1}
  NoOrder = NoOrder
  Players = {p1}
  Buyer <- MCBuyer
  Memos = {m1}
  Memo <- MCMemo
  Amounts = {1}
  Due <- MCDue
  Webhook <- MCGame
  Wallets = {o1}
  MaxAttempts = 5
  Requests = {r1}
  Pollers = {w1}
  MaxPayments = 1
  MaxFaults = 0
  MaxGrants = 2
CHECK_DEADLOCK FALSE
PROPERTIES
  PaidIsResolved
