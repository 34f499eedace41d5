SPECIFICATION FairSpec
CONSTANTS
  Threads = {main, web}
  Main = main
  NoThread = NoThread
  BufLen = 6
  Chunks = {3}
  MaxCalls = 2
  MaxNoise = 1
PROPERTIES CallReturns
