SPECIFICATION DmxSpec
CONSTANTS
  Starts = {0, 120, 240}
  Gaps = {1, 15, 60}
  MaxDelay = 20
  MaxSent = 4
  MaxOther = 1
  MaxEpoch = 1
  MaxInFlight = 2
  Slots = 3
  Universes = {1, 193}
  Values = {1, 2}
  Lengths = {2, 3}
  Texts <- MCTexts
  MaxSaves = 1
INVARIANTS DmxTypeOK SignalsAreMixed 
PROPERTIES SecondIsShown NewestIsShown
CHECK_DEADLOCK FALSE
