SPECIFICATION FairSpec
CONSTANTS
  Conns = {c1}
  IoLoops = {base, io1}
  base = base
  Threads = {t1, t2}
  Calls = {"send", "shutdown", "forceClose"}
  MaxQueue = 1
CHECK_DEADLOCK FALSE
INVARIANTS ErasedOnce WatchedIsAlive UpThenDown
PROPERTIES ClosedIsReleased DestructorReturns
