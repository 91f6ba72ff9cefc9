SPECIFICATION Spec
CONSTANTS
  o1 = o1
  m1 = m1
  m2 = m2
  p1 = p1
  Orders = {o1, o2}
  NoOrder = NoOrder
  Players = {p1}
  Buyer <- MCBuyer
  Memos = {m1}
  Memo <- MCMemo
  Amounts = {0, 1}
  Due <- MCDue
  Webhook <- MCMockFirst
  Wallets = {o1}
  MaxAttempts = 1
  Requests = {r1}
  Pollers = {w1}
  MaxPayments = 1
  MaxFaults = 1
  MaxGrants = 2
INVARIANTS
  TypeOK
  SettledIsBacked
  OnePaymentOneOrder
  LedgerIsOnChain
  DeliveredWasGranted
  RefundIsAccounted
  TransfersBounded
PROPERTIES
  RewardDueOnce
  RefinesSale
