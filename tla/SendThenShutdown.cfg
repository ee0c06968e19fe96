SPECIFICATION HistorySpec
CONSTANTS
  Threads = {t1}
  Calls = {"send", "shutdown"}
  MaxMessages = 2
  Size = 2
  highWaterMark_ = 3
  MaxQueue = 1
CHECK_DEADLOCK FALSE
INVARIANT SentBeforeShutdown
