SPECIFICATION TailRoundSpec
CONSTANTS
  Window = 5
  MaxTrades = 2
  CleanupEvery = 8
  Keep = 4
  Prices = {9999, 10003}
  OpenPrice = 10000
  MaxDelay = 1
  StartTimes = {4}
  LastTime = 9
  Round = 5
  Anchor30 = 5
  Anchor20 = 6
  Target = 7
  Cutoff = 8
  QuoteAge = 1
  TradeAge = 1
  LeaderBid = 90
  WeakBps = 2
  BackBps = 2
  BidPairs <- MCBids
  DequeCap = 2
PROPERTIES
  FrozenAtTarget
CHECK_DEADLOCK FALSE
