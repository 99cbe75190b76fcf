SPECIFICATION Spec
CONSTANTS
  r1 = r1
  r2 = r2
  n1 = n1
  n2 = n2
  s1 = s1
  s2 = s2
  u1 = u1
  fpc = fpc
  Requests = {r1, r2}
  Users = {u1}
  Notes = {n1, n2}
  Sweeps = {s1, s2}
  FpcOperator = "zero"
  ip1 = ip1
  ip2 = ip2
  Ips = {ip1, ip2}
  Amounts = {0, 1}
  Candidates <- AllCandidates
INVARIANTS
  OneWallet
  PaymentsAreFound
  SweepsReportedTruly
  ProductionIsGuarded
  RateLimitHolds
SYMMETRY Symmetry
CHECK_DEADLOCK FALSE
