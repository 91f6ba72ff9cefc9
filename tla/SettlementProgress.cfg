\* Two poll jobs that overlap and two payments, with the order's memo or with
\* another.  One attempt per delivery.  The system stops once all payments are
\* made and settled, for want of a request.
SPECIFICATION FairSpec
CONSTANTS
  o1 = o1
  m1 = m1
  m2 = m2
  p1 = p1
  Orders = {o1}
  NoOrder = NoOrder
  Players = {p1}
  Buyer <- MCBuyer
  Memos = {m1, m2}
  Memo <- MCMemo
  Amounts = {1}
  Due <- MCDue
  Webhook <- MCGame
  Wallets = {o1}
  MaxAttempts = 1
  Requests = {}
  Pollers = {w1, w2}
  MaxPayments = 2
  MaxFaults = 0
  MaxGrants = 2
CHECK_DEADLOCK FALSE
INVARIANTS
  CursorCovers
PROPERTIES
  PaymentSettles
  ResolvedIfOneAttempt
  PaidIsPaidOut
