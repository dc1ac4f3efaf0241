SPECIFICATION Spec
CONSTANTS
  HardAge = 2
  StatusCap = 1
  MaxSessions = 3
  MaxErrors = 2
  Callers = {c1, c2, c3}
  MaxAbandoned = 2
  Clients = {d1, d2, d3}
  Overrides = {o1, o2}
  MaxDepth = 2
  Sweepers = {s1, s2}
  NoSweeper = nobody
  MaxLate = 2
  Tokens = {yes, no}
  Levels = {l1}
  ObsCap = 2
  MaxSockets = 2
  MaxChanges = 2
  MaxTime = 1
  Window = 5
  MaxTrades = 2
  CleanupEvery = 7
  Keep = 4
  Prices = {9999, 10003}
  OpenPrice = 10000
  MaxDelay = 1
  StartTimes = {4}
  LastTime = 9
  Round = 5
  Anchor30 = 5
  Anchor20 = 6
  Target = 7
  Cutoff = 8
  QuoteAge = 1
  TradeAge = 1
  LeaderBid = 90
  WeakBps = 2
  BackBps = 2
  BidPairs <- MCBids
  DequeCap = 2
  btc = btc
  eth = eth
  Assets = {btc, eth}
  MaxRounds = 2
  Notional = 2
  Fee <- MCFee
  Budgets = {2, 4, 5}
  MaxOpen = 1
  MaxLosses = 2
  MaxCrashes = 1
INVARIANTS
  PartsTypeOK
  OneHeartbeatInFlight
  FatalOncePerOutage
  StallFlagNotStuck
  ResolverScoped
  OneSweep
  OneAlertPerStall
  QuotesFromOneConnection
  CoverageSound
  LateEntryWasDue
  EntryTapeUnbroken
  RiskWithinBudget
  NoBudgetLeak
CHECK_DEADLOCK FALSE
