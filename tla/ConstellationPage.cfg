SPECIFICATION PageSpec
CONSTANTS
  IPs = {1, 2, 3}
  NoIP = 0
  BootIP = 3
  Infos = {1}
  NoInfo = 0
  MaxEntry = 3
  Period = 1
  MaxQuiet = 0
  Unset = Unset
  Missing = Missing
  Sorts = {"ip", "advance"}
  Addresses = {2}
INVARIANTS UndisturbedPageIsTheList NoNodeTwice
