SPECIFICATION Spec
CONSTANTS
  Cards = {c1}
  NoCard = NoCard
  Slots = {s1, s2}
  Poll = poll
  OwnerIndex = TRUE
  MaxRequests = 4
  MaxFaults = 0
INVARIANTS
  RefundedOrReceived
CHECK_DEADLOCK FALSE
