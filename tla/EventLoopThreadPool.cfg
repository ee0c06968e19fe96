SPECIFICATION FairSpec
CONSTANTS
  numThreads_ = 3
  Quitters = {"callback", "functor"}
  MaxDeals = 5
CHECK_DEADLOCK FALSE
INVARIANTS QuitOnLiveLoop DealtEvenly
PROPERTIES StartReturns DestroyReturns
