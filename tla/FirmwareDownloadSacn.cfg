SPECIFICATION Spec
CONSTANTS
  Pages = 1
  Gated = FALSE
  Late = FALSE
  Scans = FALSE
  MaxDownloads = 1
  MaxWire = 2
PROPERTIES StreamExclusive
