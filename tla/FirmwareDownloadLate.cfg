SPECIFICATION FairSpec
CONSTANTS
  Pages = 2
  Gated = TRUE
  Late = TRUE
  Scans = TRUE
  MaxDownloads = 1
  MaxWire = 1
INVARIANTS NeverBackwards AskedFirst OneBurstAtMost
PROPERTIES DownloadReturns
