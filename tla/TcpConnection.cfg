SPECIFICATION FairSpec
CONSTANTS
  Threads = {t1, t2}
  Calls = {"send", "shutdown", "forceClose"}
  MaxMessages = 2
  Size = 2
  highWaterMark_ = 3
  MaxQueue = 1
CHECK_DEADLOCK FALSE
INVARIANTS BytesInOrder OutputCanLeave CloseOnce
PROPERTIES ShutdownCompletes PeerLeavesCloses
