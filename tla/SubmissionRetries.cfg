SPECIFICATION Spec
CONSTANTS
  checkout = checkout
  trades = trades
  key = key
  mine = mine
  yours = yours
  Scopes = {checkout, trades}
  Keys = {key}
  Bodies = {mine, yours}
  Wrong = {yours}
  OtherCalls <- MCOtherCalls
  Requests = {r1, r2}
  NoCall = NoCall
  PageScope = checkout
  PageBody = mine
  MaxAttempts = 2
SYMMETRY Symmetry
INVARIANTS
  AnswerIsStored
  Exclusive
  FreshAnswer
