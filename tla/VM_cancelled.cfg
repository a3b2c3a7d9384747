SPECIFICATION Spec
CONSTANTS
  Slots = {s1, s2}
  Cron = cron
  MaxCycles = 1
  MaxFaults = 1
PROPERTIES
  CancelledWithoutToken
CHECK_DEADLOCK FALSE
