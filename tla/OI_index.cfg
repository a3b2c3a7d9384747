SPECIFICATION FairSpec
CONSTANTS
  Tokens = {t1, t2}
  Wallets = {a, b}
  Nobody = Nobody
  NoToken = NoToken
  Writers = {w1}
  Chunk = 2
  PassBlocks = 2
  PollBlocks = 2
  MaxLog = 3
  MaxFaults = 1
INVARIANTS
  TypeOK
  IndexIsRecent
PROPERTIES
  RefinesOwnerView
  FollowsChain
CHECK_DEADLOCK FALSE
