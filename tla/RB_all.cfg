SPECIFICATION FairSpec
CONSTANTS
  Cards = {c1, c2}
  NoCard = NoCard
  Slots = {s1, s2}
  Poll = poll
  OwnerIndex = TRUE
  MaxRequests = 3
  MaxFaults = 2
INVARIANTS
  TypeOK
  FinishedCardsAreBurned
  RefundsAccounted
PROPERTIES
  DueBatchConfirmed
CHECK_DEADLOCK FALSE
