SPECIFICATION Spec
CONSTANTS
  s = s
  t = t
  None = None
  Asks = {a1}
  Bids = {b1}
  Wallets = {s, t}
  Calls = {c1, c2}
  Offerer <- TheOfferer
  Price <- ThePrice
  FullTake = {a1}
  Short = {}
  Resting = {a1}
  HoldPolicy = TRUE
  MaxCalls = 2
  MaxFaults = 0
INVARIANTS
  ReportedSalesHaveLedger
CHECK_DEADLOCK FALSE
