SPECIFICATION Spec
CONSTANTS
  IPs = {a, b, c}
  NoIP = NoIP
  BootIP = a
  Infos = {x, y}
  NoInfo = NoInfo
  MaxEntry = 3
  Period = 1
  MaxQuiet = 0
INVARIANTS OneSlotPerNode ListBehindSlots ListShowsTable
PROPERTIES LeaseSpec
