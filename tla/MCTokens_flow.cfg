SPECIFICATION MCSpec
CONSTANTS
  u1 = u1
  d1 = d1
  d2 = d2
  k1 = k1
  k2 = k2
  faucet = faucet
  operator = operator
  NoHolder = NoHolder
  Holders = {u1, faucet, operator}
  Users = {u1}
  Deposits = {d1, d2}
  Amount <- TwoAndOne
  Calls = {k1, k2}
  MaxClock = 1
  MaxPool = 1
  drip_amount = 1
  cooldown_seconds = 1
  aaPaymentAmount = 1
  Validity = 0
  COLD_START_MAX_ATTEMPTS = 2
INVARIANTS
  EscrowBacksSupply
  DripsAreSpaced
  OneTakesEffect
  ResultMeansClaimed
PROPERTIES
  CallsSettle
CHECK_DEADLOCK FALSE
