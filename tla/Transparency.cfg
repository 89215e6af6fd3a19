\* stop() is called from another thread; two histories can follow one backup.
SPECIFICATION FairSpec
CONSTANTS
  Bodies = {b1, b2}
  Genesis = Genesis
  Handlers = {h1}
  LoopInMain = FALSE
  Errors = TRUE
  Interval = 1
  PageSizes = {2}
  ServerLimit = 2
  MaxLog = 3
  MaxExits = 1
INVARIANTS
  TypeOK
  CheckpointsOnChain
PROPERTIES
  MirrorIsExact
  MirrorReachesEnd
  EveryEntrySigned
  StopCompletes
