SPECIFICATION Spec
CONSTANTS
  Items = {i1, i2}
  Mails = {v1}
  Poll = poll
  Admins = {d1}
  NoItem = NoItem
  MaxCycles = 2
  MaxRuns = 2
  MaxMishaps = 1
  Certs = {x, y}
  Callers = {k1, k2}
  MaxPackages = 2
  MaxCalls = 4
  MaxPaths = 1
  MaxIntakeFaults = 1
INVARIANTS
  TypeOK
  CompletedItemsDelivered
  MintingItemsHaveMinter
  MintedReviewsDelivered
  ShippedPackagesKept
  QueueSeesArrived
  OneVaultPath
  ReviewsTellMoves
CHECK_DEADLOCK FALSE
