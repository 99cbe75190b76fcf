SPECIFICATION Spec
CONSTANTS
  u1 = u1
  u2 = u2
  a1 = a1
  a2 = a2
  c1 = c1
  c2 = c2
  r1 = r1
  r2 = r2
  t1 = t1
  t2 = t2
  t3 = t3
  Users = {u1}
  Assets = {a1}
  Claims = {c1}
  Requests = {r1}
  Txs = {t1}
  NoClaim = NoClaim
  NoPolicy = NoPolicy
  Idle = Idle
  Unproven = Unproven
  operator = operator
  fpc = fpc
  U128Max = 2
  MaxClock = 2
  Policies <- OnePolicy
  Supported <- AllSupported
  Deposited <- DepositsOfTwo
  QuoteValidity = 1
  QuoteFormat = "amount_quote"
  GasPrices = {0, 1}
  GasLimit = 1
  MaxTtl = 1
  Funds = 2
  MintReverts = TRUE
  MaxQuotes = 2
SYMMETRY Symmetry
INVARIANTS
  OperatorPaid
CHECK_DEADLOCK FALSE
