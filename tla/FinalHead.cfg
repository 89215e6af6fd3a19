\* A handler writes between the last reading of the head and the end.
SPECIFICATION Spec
CONSTANTS
  Bodies = {b1, b2}
  Genesis = Genesis
  Handlers = {h1}
  LoopInMain = FALSE
  Errors = FALSE
  Interval = 1
  PageSizes = {2}
  ServerLimit = 2
  MaxLog = 3
  MaxExits = 1
PROPERTY FinalHeadSigned
