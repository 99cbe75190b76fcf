SPECIFICATION Spec
CONSTANTS
  u1 = u1
  a1 = a1
  a2 = a2
  c1 = c1
  r1 = r1
  r2 = r2
  Users = {u1}
  Assets = {a1, a2}
  Claims = {c1}
  Requests = {r1, r2}
  NoClaim = NoClaim
  NoPolicy = NoPolicy
  Idle = Idle
  U128Max = 4
  MaxClock = 1
  Policies <- TwoPolicies
  Supported <- BothSupported
  Asked <- SomeQuotes
  QuoteValidity = 1
  QuoteFormat = "rate_quote"
SYMMETRY Symmetry
INVARIANTS
  PricedUp
PROPERTIES
  EmptiedOnlyByStaleCount
  AdminPoliciesSurvive
