SPECIFICATION Spec
CONSTANTS
  ann = ann
  bob = bob
  Players = {ann, bob}
  NoPlayer = NoPlayer
  Inviters = {ann}
  Codes = {c1, c2}
  Orders = {o1, o2}
  Buyer <- BuyerDef
  NoOrder = NoOrder
  Amounts = {0, 1}
  Requests = {r1, r2}
  Calls = {k1, k2}
  Workers = {w1, w2}
  MaxStalls = 1
  MaxRefunded = 1
  MaxFaults = 1
SYMMETRY Symmetry
INVARIANTS
  BindingsBounded
  RewardIsLedgered
PROPERTIES
  StatusAdvances
