SPECIFICATION Spec
CONSTANTS
  Asks = {a1}
  Instances = {i1}
  CronSlots = {c1}
  AdminSlots = {}
  Reqs = {r1, r2}
  SelfAsks = {}
  Poison = {}
  Take = 1
  MaxFaults = 0
INVARIANTS
  PaidOnce
CHECK_DEADLOCK FALSE
