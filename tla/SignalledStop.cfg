\* haap-dird: the signal handler runs in the thread that serves.
SPECIFICATION FairSpec
CONSTANTS
  Bodies = {b1, b2}
  Genesis = Genesis
  Handlers = {h1}
  LoopInMain = TRUE
  Errors = FALSE
  Interval = 1
  PageSizes = {2}
  ServerLimit = 2
  MaxLog = 3
  MaxExits = 1
PROPERTY StopCompletes
