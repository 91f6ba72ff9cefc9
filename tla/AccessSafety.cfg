SPECIFICATION Spec
CONSTANTS
  Tabs = {t1, t2}
  Names = {ann}
  Wallet = Wallet
  Ttl = 1
  FreeFailures = 0
  MaxChallenges = 2
  MaxSessions = 2
SYMMETRY Symmetry
INVARIANTS
  MirrorIsLive
  NonceOpensOnce
  FailuresBounded
