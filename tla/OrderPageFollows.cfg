SPECIFICATION Spec
CONSTANTS
  MaxRounds = 3
  MaxMessages = 1
  MaxAnswers = 2
  MaxPayments = 1
INVARIANTS
  FollowsQuote
  NotAhead
PROPERTIES
  DeliveryIsShown

CHECK_DEADLOCK FALSE
