SPECIFICATION FairSpec
CONSTANTS
  d1 = d1
  d2 = d2
  d3 = d3
  c1 = c1
  c2 = c2
  Deposits = {d1, d2}
  Cycles = {c1}
  NoDeposit = NoDeposit
  NoCycle = NoCycle
  NoRecord = NoRecord
  Corrupt = Corrupt
  Threshold = 2
  TopUpAmount = 2
  CreditCap = 2
  AutoClaim = TRUE
  Faults = {"node", "claim", "ageClaimed"}
INVARIANTS
  NothingLost
PROPERTIES
  StopsWhenAsked
  DepositsGetClaimed
  LowBalanceIsAnswered
  RecordsGetSettled
