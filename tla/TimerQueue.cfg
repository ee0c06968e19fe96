SPECIFICATION Spec
CONSTANTS
  Threads = {t1}
  Addrs = {1, 2}
  Times = {1, 3}
  Intervals = {1}
  Offsets = {0, 1}
  MaxTime = 3
  MaxTimers = 3
  MaxPending = 1
INVARIANTS SetsAgree OneOwner DeadStaysDead OnlyOwnIdCancels Punctual
