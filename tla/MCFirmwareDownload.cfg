SPECIFICATION Spec
CONSTANTS
  Pages = 3
  Gated = TRUE
  Late = FALSE
  Scans = FALSE
  MaxDownloads = 4
  MaxWire = 2
INVARIANTS TypeOK GateRestored OneBurstAtMost
PROPERTIES TransferSpec
