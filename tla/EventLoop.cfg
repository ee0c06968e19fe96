SPECIFICATION FairSpec
CONSTANTS
  Threads = {t1, t2}
  Functors = {f1, f2, f3}
  Channels = {c1}
  WakeupChannel = wakeupChannel
  EventfdMax = 2
INVARIANTS NoLostWakeup QuitOwed
PROPERTIES TaskQueueSpec QueuedFunctorRuns QuitHonoured
