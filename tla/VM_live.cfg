SPECIFICATION FairSpec
CONSTANTS
  Slots = {s1}
  Cron = cron
  MaxCycles = 2
  MaxFaults = 2
PROPERTIES
  AttemptsEnd
  StampedTokensRegistered
CHECK_DEADLOCK FALSE
