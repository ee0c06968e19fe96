SPECIFICATION FairSpec
CONSTANTS
  Lengths = {1, 3}
  kSize = 3
  MaxLines = 2
  MaxClock = 4
  MaxInits = 2
  rollSize_ = 1
  flushInterval_ = 0
  checkEveryN_ = 2
  kRollPerSeconds = 2
  Micros = 2
CHECK_DEADLOCK FALSE
INVARIANTS SparesRefilled LogInOrder FlushedBetweenBatches RolledInTime NoSleepOnBacklog
PROPERTIES StopReturns LineWritten
