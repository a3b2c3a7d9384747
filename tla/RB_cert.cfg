SPECIFICATION Spec
CONSTANTS
  Cards = {c1}
  NoCard = NoCard
  Slots = {s1}
  Poll = poll
  OwnerIndex = TRUE
  MaxRequests = 4
  MaxFaults = 1
INVARIANTS
  CompletedFreesCert
CHECK_DEADLOCK FALSE
