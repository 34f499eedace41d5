SPECIFICATION Spec
CONSTANTS
  Threads = {main, web}
  Main = main
  NoThread = NoThread
  BufLen = 6
  Chunks = {1, 2, 3}
  MaxCalls = 2
  MaxNoise = 0
INVARIANTS TypeOK OneConversation DeafWhenIdle StatusIsTrue OneLineBuffered
PROPERTIES AnswerStable
