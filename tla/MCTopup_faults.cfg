SPECIFICATION Spec
CONSTANTS
  d1 = d1
  d2 = d2
  d3 = d3
  c1 = c1
  c2 = c2
  Deposits = {d1, d2, d3}
  Cycles = {c1, c2}
  NoDeposit = NoDeposit
  NoCycle = NoCycle
  NoRecord = NoRecord
  Corrupt = Corrupt
  Threshold = 2
  TopUpAmount = 2
  CreditCap = 2
  AutoClaim = TRUE
  Faults = {"crash", "node", "claim", "manualClaim", "external", "messageCheck", "l1", "l1Lost", "store", "corrupt", "age"}
SYMMETRY Symmetry
INVARIANTS
  WatchedIsPersisted
PROPERTIES
  NoBridgeOverRecord
  KeepsLedger
