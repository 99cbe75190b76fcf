SPECIFICATION Spec
CONSTANTS
  MaxNonce = 3
  Bridges = {b1}
  script = script
  Target = 3
  MintAmount = 2
  BridgeAmount = 2
  MaxRuns = 2
  Deposit = 2
  Fee = 1
  ClaimRetries = 2
  MaxClaims = 2
  Jobs = {j1, j2}
  MaxTokens = 1
  MaxVerify = 2
INVARIANTS
  OneDepositPerBridge
  ClaimerIsThere
  ClaimsReportedTruly
  RaceCostsOneAttempt
  ManifestsNameContracts
SYMMETRY Symmetry
CHECK_DEADLOCK FALSE
