SPECIFICATION Spec
CONSTANTS
  Starts = {0}
  Gaps = {1}
  MaxDelay = 20
  MaxSent = 4
  MaxOther = 0
  MaxEpoch = 0
  MaxInFlight = 3

PROPERTIES NeverStale
CHECK_DEADLOCK FALSE
