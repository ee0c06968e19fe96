SPECIFICATION Spec
CONSTANTS
  Threads = {t1}
  Addrs = {1, 2}
  Times = {1, 3}
  Intervals = {1}
  Offsets = {0}
  MaxTime = 3
  MaxTimers = 2
  MaxPending = 1
CHECK_DEADLOCK FALSE
INVARIANT ReturnedIdIsTheTimers
