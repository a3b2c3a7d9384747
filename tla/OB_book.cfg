SPECIFICATION TradeSpec
CONSTANTS
  s = s
  t = t
  None = None
  Asks = {a1, a2}
  Bids = {b1}
  Wallets = {s, t}
  Calls = {c1, c2}
  Offerer <- TheOfferer
  Price <- ThePrice
  FullTake = {a1}
  Short = {a1, b1}
  Resting = {b1}
  HoldPolicy = FALSE
  MaxCalls = 3
  MaxFaults = 1
  KycCalls = {k1, k2}
  MaxKycCalls = 3
  MaxReviews = 2
  MaxKycFaults = 1
INVARIANTS
  AllTypesOK
  
  
  LiveAsksAccounted
  PassedGatesHonest
  CurrentAppIsTruth
PROPERTIES
  EndedRowsKept
  
CHECK_DEADLOCK FALSE
