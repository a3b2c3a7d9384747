SPECIFICATION AllSpec
CONSTANTS
  Slots = {s1, s2}
  Cron = cron
  MaxCycles = 2
  MaxFaults = 1
  Cards = {c1, c2}
  Unlinked = {c2}
  Payments = {u1, u2}
  Claimants = {r1, r2}
  Listers = {l1}
  NoOne = NoOne
  MaxBatches = 2
  MaxFailures = 1
  Baskets = {g1, g2}
  Rates = {1, 2}
  Estimators = {e1, e2}
  Payers = {p1}
  NoQuote = NoQuote
  QuoteTtl = 2
  MaxPins = 2
  MaxQuotes = 3
  MaxTime = 2
  MaxRestarts = 1
  Attempts = {m1, m2}
  MaxAttempts = 3
  MaxBoxFaults = 2
SYMMETRY Alike
INVARIANTS
  AllTypesOK
  RegistryTruthful
  GhostsAccounted
  PaymentFundsOneBatch
  OpenRowHoldsCycle
  RedeemedCardsUnlisted
  
  OneMintPerRequest
  
CHECK_DEADLOCK FALSE
