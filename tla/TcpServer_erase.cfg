SPECIFICATION Spec
CONSTANTS
  Conns = {c1}
  IoLoops = {io1}
  base = base
  Threads = {t1}
  Calls = {"forceClose"}
  MaxQueue = 2
CHECK_DEADLOCK FALSE
INVARIANT ErasedOne
