SPECIFICATION FairSpec
CONSTANTS
  IPs = {a, b}
  NoIP = NoIP
  BootIP = a
  Infos = {x}
  NoInfo = NoInfo
  MaxEntry = 3
  Period = 2
  MaxQuiet = 10
INVARIANTS TypeOK HeardIsListed SilentIsGone
PROPERTIES HeardOrForgotten
