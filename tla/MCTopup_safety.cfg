SPECIFICATION Spec
CONSTANTS
  d1 = d1
  d2 = d2
  d3 = d3
  c1 = c1
  c2 = c2
  Deposits = {d1, d2, d3}
  Cycles = {c1, c2}
  NoDeposit = NoDeposit
  NoCycle = NoCycle
  NoRecord = NoRecord
  Corrupt = Corrupt
  Threshold = 2
  TopUpAmount = 3
  CreditCap = 3
  AutoClaim = TRUE
  Faults = {"node", "claim", "l1", "l1Lost", "messageCheck", "crash", "manualClaim"}
SYMMETRY Symmetry
INVARIANTS
  OneBridgeAtATime
  ConfirmedMeansCredited
  OneDepositUnderWay
PROPERTIES
  LostOnlyBeforePersist
  KeepsStrictLedger
