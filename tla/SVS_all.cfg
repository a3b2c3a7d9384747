SPECIFICATION FairSpec
CONSTANTS
  Asks = {a1, a2, a3}
  Instances = {i1}
  CronSlots = {c1}
  AdminSlots = {d1}
  Reqs = {r1, r2, r3}
  SelfAsks = {a3}
  Poison = {a1}
  Take = 2
  MaxFaults = 1
INVARIANTS
  TypeOK
  PayoutExclusion
  TransfersAccounted
PROPERTIES
  LedgerNeverReopens
  OpenRowsSettle
CHECK_DEADLOCK FALSE
