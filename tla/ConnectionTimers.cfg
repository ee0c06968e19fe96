SPECIFICATION FairSpec
CONSTANTS
  Config = {"connection", "idle"}
  UserCalls = {"shutdown", "forceClose", "connectionOn", "connectionOff",
               "idleOn", "idleOff", "keepAliveOn", "keepAliveOff"}
  MaxTimers = 5
  MaxCalls = 1
CHECK_DEADLOCK FALSE
INVARIANTS TimeoutsCancellable IdleArmed IdleOffIsOff
PROPERTIES TimersEnd TimeoutCloses
